---------------------------- MODULE Spec2Model ----------------------------
(***************************************************************************)
(* RadioStation: the deduplication ledger (app/hash_manager.py), the       *)
(* fetch path that claims URLs and content hashes (app/downloader.py) and  *)
(* the bank-filling assignment loop (app/pipeline.py).                     *)
(*                                                                         *)
(* The specifications share the variables:                                 *)
(*   Spec         several processes, each with one HashManager (one        *)
(*                 sqlite3 connection and one threading.Lock), whose       *)
(*                 worker threads call _download_one, add_url and add_hash *)
(*                 on one database file;                                   *)
(*   SpecPipeline  the coordinating sequence of run_pipeline: the theme    *)
(*                 loop, the assignment of candidate slices, stop and      *)
(*                 resume;                                                 *)
(*   SpecSession   run_pipeline with the session cache its downloads fill; *)
(*   SpecSlice     the two slicers applied to fetched files;               *)
(*   SpecBatch     download_candidates_for_term: the search filter and the *)
(*                 waves of _download_one calls;                           *)
(*   SpecNormalize normalize_url applied to URLs of every form;            *)
(*   SpecMove      _move_to_theme on banks that hold files already;        *)
(*   SpecTermination run_pipeline with any themes.json, retries uncapped;  *)
(*   SpecOptions   the strategy, the range and the options _download_one   *)
(*                 hands to the fetch tool;                                *)
(*   SpecWeb       the requests of app/web.py and its worker threads;      *)
(*   SpecScoring   run_pipeline with the model state of app/scoring.py;    *)
(*   SpecExpand    batch_expand_search_terms_v2 for one theme.             *)
(***************************************************************************)
EXTENDS Naturals, Integers, Sequences, FiniteSets, TLC

(***************************************************************************)
(* Bounds of the model.                                                    *)
(***************************************************************************)
MaxCalls == 2

(***************************************************************************)
(* URLs are sequences of text pieces; the pieces are the units the regular *)
(* expressions of YOUTUBE_URL_PATTERNS and urlparse cut a URL into.        *)
(***************************************************************************)
NULL == "NULL"
NoUrl == <<>>

Watch_a == <<"https", "://", "www.youtube.com", "/watch", "?v=", "a">>
Short_a == <<"https", "://", "youtu.be", "/", "a">>
Clip_1 == <<"https", "://", "Example.com", "/clip", "?x=1">>
Clip_2 == <<"https", "://", "example.com", "/clip">>

\* the URLs the ledger is called with
URLS == {Watch_a, Short_a, Clip_1, Clip_2}

\* the other forms of video a in test_url_normalization, and the short link with
\* its host in mixed case
WatchNoWww_a == <<"https", "://", "youtube.com", "/watch", "?v=", "a">>
WatchT_a == <<"https", "://", "www.youtube.com", "/watch", "?v=", "a", "&t=10s">>
WatchList_a == <<"https", "://", "www.youtube.com", "/watch", "?v=", "a", "&list=PL">>
Embed_a == <<"https", "://", "youtube.com", "/embed/", "a">>
V_a == <<"https", "://", "www.youtube.com", "/v/", "a">>
ShortMixedCase_a == <<"https", "://", "YouTu.be", "/", "a">>

\* the URL forms that stand for video a
FormsOfVideo_a ==
    {Watch_a, Short_a, WatchNoWww_a, WatchT_a, WatchList_a, Embed_a, V_a, ShortMixedCase_a}

\* the watch pages of two more videos, and a form of video a that none of the
\* patterns of normalize_url matches
Watch_b == <<"https", "://", "www.youtube.com", "/watch", "?v=", "b">>
Watch_c == <<"https", "://", "www.youtube.com", "/watch", "?v=", "c">>
Nocookie_a == <<"https", "://", "www.youtube-nocookie.com", "/embed/", "a">>

\* the URLs normalize_url is applied to
UrlForms == FormsOfVideo_a \cup {Clip_1, Clip_2, Watch_b, Watch_c, Nocookie_a}

\* [a-zA-Z0-9_-]+ : the pieces that are one run of id characters
IdPieces == {"a", "b", "c"}

\* the text "youtube.com" ends these host pieces
EndsWithYoutubeCom(piece) == piece \in {"youtube.com", "www.youtube.com", "m.youtube.com"}

EndsWithYoutuBe(piece) == piece \in {"youtu.be", "www.youtu.be"}

\* str.lower() on a host piece
Lower(piece) ==
    IF piece = "Example.com" THEN "example.com"
    ELSE IF piece = "YouTu.be" THEN "youtu.be"
    ELSE piece

IsPathPiece(piece) == piece \in {"/", "/watch", "/clip", "/embed/", "/v/", "/shorts/"}

\* positions i where pattern 1 matches: youtube.com/watch?v=ID | youtu.be/ID | youtube.com/embed/ID
Pattern1At(url, i) ==
    \/ /\ i + 3 <= Len(url)
       /\ EndsWithYoutubeCom(url[i]) /\ url[i+1] = "/watch" /\ url[i+2] = "?v="
       /\ url[i+3] \in IdPieces
    \/ /\ i + 2 <= Len(url)
       /\ EndsWithYoutuBe(url[i]) /\ url[i+1] = "/" /\ url[i+2] \in IdPieces
    \/ /\ i + 2 <= Len(url)
       /\ EndsWithYoutubeCom(url[i]) /\ url[i+1] = "/embed/" /\ url[i+2] \in IdPieces

Pattern2At(url, i) ==
    /\ i + 2 <= Len(url)
    /\ EndsWithYoutubeCom(url[i]) /\ url[i+1] = "/v/" /\ url[i+2] \in IdPieces

Pattern3At(url, i) ==
    /\ i + 2 <= Len(url)
    /\ EndsWithYoutubeCom(url[i]) /\ url[i+1] = "/shorts/" /\ url[i+2] \in IdPieces

\* group(1) of a match at i: the id piece that follows the matched prefix
GroupAt(url, i) == IF url[i+1] = "/watch" THEN url[i+3] ELSE url[i+2]

Min(S) == CHOOSE x \in S : \A y \in S : x <= y

\* pattern.search(url): the leftmost match, patterns tried in list order
ExtractVideoId(url) ==
    LET m1 == {i \in 1..Len(url) : Pattern1At(url, i)}
        m2 == {i \in 1..Len(url) : Pattern2At(url, i)}
        m3 == {i \in 1..Len(url) : Pattern3At(url, i)}
    IN  IF m1 # {} THEN GroupAt(url, Min(m1))
        ELSE IF m2 # {} THEN GroupAt(url, Min(m2))
        ELSE IF m3 # {} THEN GroupAt(url, Min(m3))
        ELSE NULL

\* urlparse(url): scheme, netloc, path (the query is dropped)
ParsedNetloc(url) == IF Len(url) >= 3 /\ url[2] = "://" THEN url[3] ELSE ""

\* the path ends before the first piece of the query
PathEnd(url) ==
    Min({i \in 4..Len(url) : ~(IsPathPiece(url[i]) \/ url[i] \in IdPieces)}
        \cup {Len(url) + 1})

ParsedPath(url) ==
    IF Len(url) >= 4 /\ url[2] = "://" THEN SubSeq(url, 4, PathEnd(url) - 1) ELSE <<>>

\* HashManager.normalize_url on every URL of the model: (normalized_url, video_id)
NormalizedUrl ==
    [url \in UrlForms |->
        LET video_id == ExtractVideoId(url)
        IN  IF video_id # NULL
            THEN [normalized_url |-> <<"https", "://", "www.youtube.com", "/watch", "?v=", video_id>>,
                  video_id |-> video_id]
            ELSE IF ParsedNetloc(url) # "" /\ ParsedPath(url) # <<>>
            THEN [normalized_url |-> <<url[1], "://", Lower(ParsedNetloc(url))>> \o ParsedPath(url),
                  video_id |-> NULL]
            ELSE [normalized_url |-> url, video_id |-> NULL]]

\* hash_manager.normalize_url(url)
normalize_url(url) == NormalizedUrl[url]


(***************************************************************************)
(* The ledger: one sqlite database file shared by every process.           *)
(***************************************************************************)
\* worker threads 1 and 2 run in process 1, worker thread 3 in process 2
Workers == {1, 2, 3}

ProcOf(w) == (w + 1) \div 2

Procs == {ProcOf(w) : w \in Workers}

ThemeNames == {"Soft", "Loud"}

\* the theme a process is filling while its workers fetch
ThemeOfProc(p) == IF p = 1 THEN "Soft" ELSE "Loud"

Hashes == {"h1"}

\* the key add_url checks: the video id when one is extracted, else the normalized URL
KeyOfUrl ==
    [url \in UrlForms |->
        LET n == normalize_url(url)
        IN  IF n.video_id # NULL THEN <<"id", n.video_id>> ELSE <<"url">> \o n.normalized_url]

KeyOf(url) == KeyOfUrl[url]

Keys == {KeyOf(u) : u \in URLS}

VARIABLES
    used_urls,      \* table used_urls: rows [url, normalized_url, video_id, theme_name]
    audio_hashes,   \* table audio_hashes: rows [hash, url]
    dbLock,         \* the process whose connection holds the database write lock, or 0
    txnOpen,        \* per process: the connection is inside a transaction left open
    hmLock,         \* per process: the worker holding HashManager._lock, or 0
    proc,           \* per process: "down", the startup steps, "up"
    legacy_urls,    \* LEGACY_URLS_FILE (used_urls.json beside the package)
    used_urls_json, \* DATA_DIR/used_urls.json, written by _save_used_url
    legacy_hashes,  \* LEGACY_HASHES_FILE
    hashes_json,    \* DATA_DIR/audio_hashes.json, written by _save_hash
    session_urls,   \* per process: _session_used_urls
    session_ids,    \* per process: _session_used_video_ids
    wk,             \* per worker: [pc, op, url, theme, hash]
    calls,          \* calls started so far
    urlRet,         \* history: per key, how many add_url calls returned True (t), whether
                    \* one returned False on a found row (f), or on sqlite3.Error (e)
    hashRet,        \* history: the same per hash for add_hash
    fetches,        \* history: per key, the _download_one calls that went on to extract_info
    slices,         \* per content hash: the slice files a slicer has emitted (they are in
                    \* the candidates directory or, moved by _move_to_theme, in a bank)
    raw_dir         \* RAW_DIR: the files [url, hash, state] _download_one has fetched;
                    \* state (history) is "fetched", then "deleted" by p.unlink() or
                    \* "returned" once _download_one returned the path

ledgerVars == <<used_urls, audio_hashes, dbLock, txnOpen, hmLock, proc,
                legacy_urls, used_urls_json, legacy_hashes, hashes_json,
                session_urls, session_ids, wk, calls, urlRet, hashRet, fetches, slices, raw_dir>>

\* the state of run_pipeline (app/pipeline.py) and of the session directories
VARIABLES
    session_dirs,     \* the session directories that exist under SESSIONS_DIR
    bank,             \* per session and theme: the files [num, cand, run] of themes/<theme>
    candidates_dir,   \* the slice files in the candidates directory
    results,          \* run_pipeline: results (filled count per theme)
    retries,          \* run_pipeline: retries per theme
    run,              \* run_pipeline: position and locals
    stop_event,       \* web.py: _stop_event
    scoring_enabled,  \* SCORING_ENABLED
    max_retries,      \* MAX_RETRIES_PER_THEME
    last,             \* history: the candidate the assignment loop handled last
    runNo,            \* history: run_pipeline calls so far
    nextCand,         \* history: slices downloaded so far
    slicer,           \* _process_to_candidate_slices / _process_to_best_candidate_slices:
                      \* position and locals of the call in progress
    batch,            \* download_candidates_for_term: position and locals of the call
    ydl,              \* _download_one from extract_info to YoutubeDL(opts): position,
                      \* the settings read, the duration found and the options built
    web,              \* web.py: _run_status, the worker threads and the cleanup threads
    scorer,           \* scoring.py: _model, and (history) the load attempts, the failure
                      \* logs of _assign_with_scoring and the run of the last failed load
    expander          \* batch_expand_search_terms_v2 for one theme: position and locals

pipeVars == <<session_dirs, bank, candidates_dir, results, retries, run, stop_event,
              scoring_enabled, max_retries, last, runNo, nextCand, slicer, batch, ydl, web, scorer, expander>>

vars == <<ledgerVars, pipeVars>>

IdleWorker == [pc |-> "idle", op |-> "none", url |-> NoUrl, theme |-> NULL, hash |-> NULL]

NoRet == [t |-> 0, f |-> FALSE, e |-> FALSE]

\* the legacy JSON files of an installation: none, or files of an earlier version
LegacyInstallations == {[urls |-> {}, hashes |-> {}],
                        [urls |-> {Watch_a, Short_a}, hashes |-> {"h1"}]}

LedgerInitOf(installations) ==
    /\ used_urls = {}
    /\ audio_hashes = {}
    /\ dbLock = 0
    /\ txnOpen = [p \in Procs |-> FALSE]
    /\ hmLock = [p \in Procs |-> 0]
    /\ proc = [p \in Procs |-> "down"]
    /\ \E inst \in installations :
          legacy_urls = inst.urls /\ legacy_hashes = inst.hashes
    /\ used_urls_json = {}
    /\ hashes_json = {}
    /\ session_urls = [p \in Procs |-> {}]
    /\ session_ids = [p \in Procs |-> {}]
    /\ wk = [w \in Workers |-> IdleWorker]
    /\ calls = 0
    /\ urlRet = [k \in Keys |-> NoRet]
    /\ hashRet = [h \in Hashes |-> NoRet]
    /\ fetches = [k \in Keys |-> 0]
    /\ slices = [h \in Hashes |-> 0]
    /\ raw_dir = {}

LedgerInit == LedgerInitOf(LegacyInstallations)


(***************************************************************************)
(* Process start: HashManager.__init__ = _init_db, then                    *)
(* _migrate_legacy_data.  The statements write outside BEGIN IMMEDIATE:    *)
(* python opens an implicit transaction before the first UPDATE / INSERT,  *)
(* and when that statement fails on a locked database the except clause    *)
(* swallows the error and leaves the transaction open.                     *)
(***************************************************************************)
NeedsUrlData(row) == row.normalized_url = NoUrl \/ row.video_id = NULL

\* UPDATE used_urls SET normalized_url = ?, video_id = ? WHERE url = ?
PopulatedRow(row) ==
    [row EXCEPT !.normalized_url = normalize_url(row.url).normalized_url,
                !.video_id = normalize_url(row.url).video_id]

\* INSERT OR IGNORE INTO used_urls (url) VALUES (?): url is the primary key
InsertOrIgnoreUrls(rows, urls) ==
    rows \cup {[url |-> u, normalized_url |-> NoUrl, video_id |-> NULL, theme_name |-> NULL] :
                 u \in {x \in urls : \A r \in rows : r.url # x}}

\* INSERT OR IGNORE INTO audio_hashes (hash, timestamp, metadata): hash is the primary key
InsertOrIgnoreHashes(rows, hs) ==
    rows \cup {[hash |-> h, url |-> NoUrl] : h \in {x \in hs : \A r \in rows : r.hash # x}}

\* sqlite3.connect and the CREATE TABLE / CREATE INDEX statements of _init_db
StartProcess(p) ==
    /\ proc[p] = "down"
    /\ dbLock = 0
    /\ proc' = [proc EXCEPT ![p] = "populate"]
    /\ UNCHANGED <<used_urls, audio_hashes, dbLock, txnOpen, hmLock, legacy_urls,
                   used_urls_json, legacy_hashes, hashes_json, session_urls,
                   session_ids, wk, calls, urlRet, hashRet, fetches>>
    /\ UNCHANGED <<slices, raw_dir>>
    /\ UNCHANGED pipeVars

\* _populate_missing_url_data and _ensure_url_data_populated
PopulateUrlData(p) ==
    /\ proc[p] = "populate"
    /\ proc' = [proc EXCEPT ![p] = "migrate_hashes"]
    /\ IF {r \in used_urls : NeedsUrlData(r)} = {}
       THEN UNCHANGED <<used_urls, txnOpen>>
       ELSE IF dbLock = 0
       THEN /\ used_urls' = {IF NeedsUrlData(r) THEN PopulatedRow(r) ELSE r : r \in used_urls}
            /\ txnOpen' = [txnOpen EXCEPT ![p] = FALSE]
       ELSE /\ txnOpen' = [txnOpen EXCEPT ![p] = TRUE]
            /\ UNCHANGED used_urls
    /\ UNCHANGED <<audio_hashes, dbLock, hmLock, legacy_urls, used_urls_json,
                   legacy_hashes, hashes_json, session_urls, session_ids, wk, calls,
                   urlRet, hashRet, fetches>>
    /\ UNCHANGED <<slices, raw_dir>>
    /\ UNCHANGED pipeVars

\* _migrate_legacy_data, the two hash files
MigrateHashes(p) ==
    /\ proc[p] = "migrate_hashes"
    /\ proc' = [proc EXCEPT ![p] = "migrate_urls"]
    /\ IF legacy_hashes \cup hashes_json = {}
       THEN UNCHANGED <<audio_hashes, txnOpen>>
       ELSE IF dbLock = 0
       THEN /\ audio_hashes' = InsertOrIgnoreHashes(audio_hashes, legacy_hashes \cup hashes_json)
            /\ txnOpen' = [txnOpen EXCEPT ![p] = FALSE]
       ELSE /\ txnOpen' = [txnOpen EXCEPT ![p] = TRUE]
            /\ UNCHANGED audio_hashes
    /\ UNCHANGED <<used_urls, dbLock, hmLock, legacy_urls, used_urls_json,
                   legacy_hashes, hashes_json, session_urls, session_ids, wk, calls,
                   urlRet, hashRet, fetches>>
    /\ UNCHANGED <<slices, raw_dir>>
    /\ UNCHANGED pipeVars

\* _migrate_legacy_data, the two URL files
MigrateUrls(p) ==
    /\ proc[p] = "migrate_urls"
    /\ proc' = [proc EXCEPT ![p] = "up"]
    /\ IF legacy_urls \cup used_urls_json = {}
       THEN UNCHANGED <<used_urls, txnOpen>>
       ELSE IF dbLock = 0
       THEN /\ used_urls' = InsertOrIgnoreUrls(used_urls, legacy_urls \cup used_urls_json)
            /\ txnOpen' = [txnOpen EXCEPT ![p] = FALSE]
       ELSE /\ txnOpen' = [txnOpen EXCEPT ![p] = TRUE]
            /\ UNCHANGED used_urls
    /\ UNCHANGED <<audio_hashes, dbLock, hmLock, legacy_urls, used_urls_json,
                   legacy_hashes, hashes_json, session_urls, session_ids, wk, calls,
                   urlRet, hashRet, fetches>>
    /\ UNCHANGED <<slices, raw_dir>>
    /\ UNCHANGED pipeVars

(***************************************************************************)
(* HashManager.has_url, has_video_id, add_url                              *)
(***************************************************************************)
\* a lookup that compares only the raw string
has_url_RawOnly(rows, url) == \E r \in rows : r.url = url

\* has_url: SELECT by video_id, then by normalized_url OR url
has_url(rows, url) ==
    LET n == normalize_url(url)
    IN  \/ n.video_id # NULL /\ \E r \in rows : r.video_id = n.video_id
        \/ \E r \in rows : r.normalized_url = n.normalized_url \/ r.url = url

has_video_id(rows, video_id) == \E r \in rows : r.video_id = video_id

\* a check that compares only the raw string
UrlRowExists_RawOnly(rows, url) == \E r \in rows : r.url = url

\* a check that takes any stored row for the source
UrlRowExists_AnyRow(rows, url) == rows # {}

\* the SELECT of add_url: by video_id when there is one, otherwise by normalized_url
UrlRowExists(rows, url) ==
    LET n == normalize_url(url)
    IN  IF n.video_id # NULL
        THEN \E r \in rows : r.video_id = n.video_id
        ELSE \E r \in rows : r.normalized_url = n.normalized_url

NewUrlRow(url, theme) ==
    [url |-> url, normalized_url |-> normalize_url(url).normalized_url,
     video_id |-> normalize_url(url).video_id, theme_name |-> theme]

\* a plain BEGIN: the write lock is not taken until the INSERT
BeginImmediateUrl_Deferred(p) == dbLock' = dbLock

\* BEGIN IMMEDIATE TRANSACTION in add_url: the connection takes the write lock
BeginImmediateUrl(p) == dbLock' = p

\* rollback() / commit(): the write lock, when this connection holds it, is released
EndTransaction(p) == dbLock' = IF dbLock = p THEN 0 ELSE dbLock

AddUrlErrorResult_FailOpen == TRUE

\* except sqlite3.Error: rollback, return False
AddUrlErrorResult == FALSE

RetCount(c, result, kind) ==
    IF result THEN [c EXCEPT !.t = @ + 1]
    ELSE IF kind = "error" THEN [c EXCEPT !.e = TRUE]
    ELSE [c EXCEPT !.f = TRUE]

\* add_url returns `result` to its caller: a direct call (op "add_url"), the claim
\* of _download_one (op "claim") or its second _save_used_url (op "update");
\* _save_used_url appends a claimed url to DATA_DIR/used_urls.json
AddUrlReturn(w, result, kind) ==
    LET k == KeyOf(wk[w].url)
        viaSave == wk[w].op \in {"claim", "update"}
    IN  /\ hmLock' = [hmLock EXCEPT ![ProcOf(w)] = 0]
        /\ txnOpen' = [txnOpen EXCEPT ![ProcOf(w)] = FALSE]
        /\ urlRet' = [urlRet EXCEPT ![k] = RetCount(@, result, kind)]
        /\ used_urls_json' = IF viaSave /\ result THEN used_urls_json \cup {wk[w].url}
                             ELSE used_urls_json
        /\ fetches' = IF wk[w].op = "claim" /\ result
                      THEN [fetches EXCEPT ![k] = @ + 1] ELSE fetches
        /\ wk' = [wk EXCEPT ![w] =
                    IF wk[w].op = "add_url"
                    THEN IdleWorker
                    ELSE IF wk[w].op = "claim"
                    THEN IF result THEN [@ EXCEPT !.pc = "extract_info"] ELSE IdleWorker
                    ELSE [@ EXCEPT !.pc = "download"]]

\* a caller invokes add_url(url, title, search_term, theme_name) directly
CallAddUrl(w, url) ==
    /\ proc[ProcOf(w)] = "up"
    /\ wk[w].pc = "idle"
    /\ calls < MaxCalls
    /\ calls' = calls + 1
    /\ wk' = [wk EXCEPT ![w] = [IdleWorker EXCEPT !.pc = "add_begin", !.op = "add_url",
                                    !.url = url, !.theme = ThemeOfProc(ProcOf(w))]]
    /\ UNCHANGED <<used_urls, audio_hashes, dbLock, txnOpen, hmLock, proc,
                   legacy_urls, used_urls_json, legacy_hashes, hashes_json,
                   session_urls, session_ids, urlRet, hashRet, fetches>>
    /\ UNCHANGED <<slices, raw_dir>>
    /\ UNCHANGED pipeVars

\* with self._lock: self._conn.execute('BEGIN IMMEDIATE TRANSACTION').  BEGIN fails
\* inside a transaction left open, and on the busy timeout while another connection
\* holds the write lock; the except clause rolls back and returns False
AddUrlBegin(w) ==
    /\ wk[w].pc = "add_begin"
    /\ hmLock[ProcOf(w)] = 0
    /\ \/ /\ ~txnOpen[ProcOf(w)]
          /\ dbLock = 0
          /\ BeginImmediateUrl(ProcOf(w))
          /\ hmLock' = [hmLock EXCEPT ![ProcOf(w)] = w]
          /\ wk' = [wk EXCEPT ![w].pc = "add_select"]
          /\ UNCHANGED <<txnOpen, used_urls_json, urlRet, fetches>>
       \/ /\ txnOpen[ProcOf(w)] \/ dbLock \notin {0, ProcOf(w)}
          /\ AddUrlReturn(w, AddUrlErrorResult, "error")
          /\ UNCHANGED dbLock
    /\ UNCHANGED <<used_urls, audio_hashes, proc, legacy_urls, legacy_hashes,
                   hashes_json, session_urls, session_ids, calls, hashRet>>
    /\ UNCHANGED <<slices, raw_dir>>
    /\ UNCHANGED pipeVars

\* an add that writes the theme of the later caller into the row it found
RejectedAddUrl_Upsert(rows, url, theme) ==
    {IF KeyOf(r.url) = KeyOf(url) THEN [r EXCEPT !.theme_name = theme] ELSE r : r \in rows}

\* used_urls after `if cursor.fetchone(): self._conn.rollback(); return False`:
\* the title, search term and theme of the rejected call are dropped
RejectedAddUrl(rows, url, theme) == rows

\* get_url_info: the rows its SELECT matches, as the record it builds from
\* fetchone(); the empty set stands for None
get_url_info(rows, url) ==
    LET n == normalize_url(url)
        matching == IF n.video_id # NULL
                    THEN {r \in rows : r.video_id = n.video_id}
                    ELSE {r \in rows : r.normalized_url = n.normalized_url}
    IN  {[url |-> r.url, video_id |-> r.video_id, theme_name |-> r.theme_name] :
            r \in matching}

\* the SELECT and `if cursor.fetchone(): rollback; return False`
AddUrlSelect(w) ==
    /\ wk[w].pc = "add_select"
    /\ IF UrlRowExists(used_urls, wk[w].url)
       THEN /\ used_urls' = RejectedAddUrl(used_urls, wk[w].url, wk[w].theme)
            /\ EndTransaction(ProcOf(w))
            /\ AddUrlReturn(w, FALSE, "found")
       ELSE /\ wk' = [wk EXCEPT ![w].pc = "add_insert"]
            /\ UNCHANGED <<used_urls, dbLock, txnOpen, hmLock, used_urls_json, urlRet,
                           fetches>>
    /\ UNCHANGED <<audio_hashes, proc, legacy_urls, legacy_hashes,
                   hashes_json, session_urls, session_ids, calls, hashRet>>
    /\ UNCHANGED <<slices, raw_dir>>
    /\ UNCHANGED pipeVars

\* the INSERT (url is the primary key: IntegrityError on a row with this url) and commit
AddUrlInsert(w) ==
    /\ wk[w].pc = "add_insert"
    /\ EndTransaction(ProcOf(w))
    /\ IF \E r \in used_urls : r.url = wk[w].url
       THEN /\ AddUrlReturn(w, AddUrlErrorResult, "error")
            /\ UNCHANGED used_urls
       ELSE /\ used_urls' = used_urls \cup {NewUrlRow(wk[w].url, wk[w].theme)}
            /\ AddUrlReturn(w, TRUE, "added")
    /\ UNCHANGED <<audio_hashes, proc, legacy_urls, legacy_hashes,
                   hashes_json, session_urls, session_ids, calls, hashRet>>
    /\ UNCHANGED <<slices, raw_dir>>
    /\ UNCHANGED pipeVars

(***************************************************************************)
(* HashManager.add_hash                                                    *)
(***************************************************************************)
has_hash(rows, h) == \E r \in rows : r.hash = h

\* BEGIN IMMEDIATE TRANSACTION in add_hash
BeginImmediateHash(p) == dbLock' = p

AddHashErrorResult_FailOpen == TRUE

\* except sqlite3.Error: rollback, return False
AddHashErrorResult == FALSE

\* a slicer that keeps every slice it exported
SliceKept_Always(result) == TRUE

\* _process_to_candidate_slices and _process_to_best_candidate_slices:
\* `if not hash_manager.add_hash(slice_hash, str(out_path)): out_path.unlink()`,
\* otherwise the slice is appended to the result
SliceKept(result) == result

\* a _download_one that keeps the file whatever add_hash says
FileKept_Always(result) == TRUE

\* _download_one: `if not hash_manager.add_hash(file_hash, str(p), url, metadata):
\* p.unlink(); return None, metadata`, otherwise _save_hash and the path is returned
FileKept(result) == result

\* the file of RAW_DIR fetched from url with content hash h gets the state st
SetFileState(files, url, h, st) ==
    {IF f.url = url /\ f.hash = h /\ f.state = "fetched" THEN [f EXCEPT !.state = st] ELSE f :
        f \in files}

\* add_hash returns `result`: to a slicer (op "add_hash"), to _download_one
\* (op "file_hash"), which deletes the file or calls _save_hash, or to _save_hash
\* (op "save_hash"), which appends a hash it added to DATA_DIR/audio_hashes.json;
\* after _save_hash, _download_one returns the path
AddHashReturn(w, result, kind) ==
    /\ hmLock' = [hmLock EXCEPT ![ProcOf(w)] = 0]
    /\ txnOpen' = [txnOpen EXCEPT ![ProcOf(w)] = FALSE]
    /\ hashRet' = [hashRet EXCEPT ![wk[w].hash] = RetCount(@, result, kind)]
    /\ hashes_json' = IF wk[w].op = "save_hash" /\ result
                      THEN hashes_json \cup {wk[w].hash} ELSE hashes_json
    /\ slices' = IF wk[w].op = "add_hash" /\ SliceKept(result)
                 THEN [slices EXCEPT ![wk[w].hash] = @ + 1] ELSE slices
    /\ raw_dir' = IF wk[w].op = "file_hash" /\ ~FileKept(result)
                  THEN SetFileState(raw_dir, wk[w].url, wk[w].hash, "deleted")
                  ELSE IF wk[w].op = "save_hash"
                  THEN SetFileState(raw_dir, wk[w].url, wk[w].hash, "returned")
                  ELSE raw_dir
    /\ wk' = [wk EXCEPT ![w] =
                IF wk[w].op = "file_hash" /\ FileKept(result)
                THEN [@ EXCEPT !.pc = "hash_begin", !.op = "save_hash"]
                ELSE IdleWorker]

\* a slicer has exported a slice with content hash h and calls
\* add_hash(slice_hash, str(out_path))
CallAddHash(w, h) ==
    /\ proc[ProcOf(w)] = "up"
    /\ wk[w].pc = "idle"
    /\ calls < MaxCalls
    /\ calls' = calls + 1
    /\ wk' = [wk EXCEPT ![w] = [IdleWorker EXCEPT !.pc = "hash_begin", !.op = "add_hash",
                                                  !.hash = h]]
    /\ UNCHANGED <<used_urls, audio_hashes, dbLock, txnOpen, hmLock, proc,
                   legacy_urls, used_urls_json, legacy_hashes, hashes_json,
                   session_urls, session_ids, urlRet, hashRet, fetches>>
    /\ UNCHANGED <<slices, raw_dir>>
    /\ UNCHANGED pipeVars

\* with self._lock: self._conn.execute('BEGIN IMMEDIATE TRANSACTION')
AddHashBegin(w) ==
    /\ wk[w].pc = "hash_begin"
    /\ hmLock[ProcOf(w)] = 0
    /\ \/ /\ ~txnOpen[ProcOf(w)]
          /\ dbLock = 0
          /\ BeginImmediateHash(ProcOf(w))
          /\ hmLock' = [hmLock EXCEPT ![ProcOf(w)] = w]
          /\ wk' = [wk EXCEPT ![w].pc = "hash_select"]
          /\ UNCHANGED <<txnOpen, hashes_json, hashRet, slices, raw_dir>>
       \/ /\ txnOpen[ProcOf(w)] \/ dbLock \notin {0, ProcOf(w)}
          /\ AddHashReturn(w, AddHashErrorResult, "error")
          /\ UNCHANGED dbLock
    /\ UNCHANGED <<used_urls, audio_hashes, proc, legacy_urls, used_urls_json,
                   legacy_hashes, session_urls, session_ids, calls, urlRet, fetches>>
    /\ UNCHANGED pipeVars

\* the SELECT and `if cursor.fetchone(): rollback; return False`
AddHashSelect(w) ==
    /\ wk[w].pc = "hash_select"
    /\ IF has_hash(audio_hashes, wk[w].hash)
       THEN /\ EndTransaction(ProcOf(w))
            /\ AddHashReturn(w, FALSE, "found")
       ELSE /\ wk' = [wk EXCEPT ![w].pc = "hash_insert"]
            /\ UNCHANGED <<dbLock, txnOpen, hmLock, hashes_json, hashRet, slices,
                           raw_dir>>
    /\ UNCHANGED <<used_urls, audio_hashes, proc, legacy_urls, used_urls_json,
                   legacy_hashes, session_urls, session_ids, calls, urlRet, fetches>>
    /\ UNCHANGED pipeVars

\* the INSERT (hash is the primary key) and commit
AddHashInsert(w) ==
    /\ wk[w].pc = "hash_insert"
    /\ EndTransaction(ProcOf(w))
    /\ IF \E r \in audio_hashes : r.hash = wk[w].hash
       THEN /\ AddHashReturn(w, AddHashErrorResult, "error")
            /\ UNCHANGED audio_hashes
       ELSE /\ audio_hashes' = audio_hashes \cup {[hash |-> wk[w].hash, url |-> wk[w].url]}
            /\ AddHashReturn(w, TRUE, "added")
    /\ UNCHANGED <<used_urls, proc, legacy_urls, used_urls_json,
                   legacy_hashes, session_urls, session_ids, calls, urlRet, fetches>>
    /\ UNCHANGED pipeVars

(***************************************************************************)
(* downloader._download_one                                                *)
(***************************************************************************)
\* is_url_used_in_session(url) in process p
is_url_used_in_session(p, url) ==
    \/ url \in session_urls[p]
    \/ normalize_url(url).normalized_url \in session_urls[p]
    \/ normalize_url(url).video_id # NULL /\ normalize_url(url).video_id \in session_ids[p]

\* a filter without the third layer
ExtractSearchKeeps_NoVideoId(p, vid, url) ==
    /\ ~has_url(used_urls, url)
    /\ ~is_url_used_in_session(p, url)

\* _extract_search in process p keeps a search result (vid, url) in the list it
\* returns: the three filter layers all pass
ExtractSearchKeeps(p, vid, url) ==
    /\ ~has_url(used_urls, url)
    /\ ~is_url_used_in_session(p, url)
    /\ ~has_video_id(used_urls, vid)

\* a fetch that gives the source back when it ends without a file
ClaimAfterFetch_Released(rows, url) == {r \in rows : r.url # url}

\* used_urls after _download_one returned no path: the row stays ("we keep the URL
\* marked as used to avoid repeatedly trying broken URLs")
ClaimAfterFetch(rows, url) == rows

\* mark_url_used_in_session(url), then `if hash_manager.has_url(url): return None, {}`
BeginDownloadOne(w, url) ==
    /\ proc[ProcOf(w)] = "up"
    /\ wk[w].pc = "idle"
    /\ hmLock[ProcOf(w)] = 0
    /\ calls < MaxCalls
    /\ calls' = calls + 1
    /\ session_urls' = [session_urls EXCEPT ![ProcOf(w)] =
                          @ \cup {url, normalize_url(url).normalized_url}]
    /\ session_ids' = [session_ids EXCEPT ![ProcOf(w)] =
                          IF normalize_url(url).video_id # NULL
                          THEN @ \cup {normalize_url(url).video_id} ELSE @]
    /\ wk' = [wk EXCEPT ![w] =
                IF has_url(used_urls, url)
                THEN IdleWorker
                ELSE [IdleWorker EXCEPT !.pc = "add_begin", !.op = "claim", !.url = url,
                                        !.theme = ThemeOfProc(ProcOf(w))]]
    /\ UNCHANGED <<used_urls, audio_hashes, dbLock, txnOpen, hmLock, proc,
                   legacy_urls, used_urls_json, legacy_hashes, hashes_json,
                   urlRet, hashRet, fetches>>
    /\ UNCHANGED <<slices, raw_dir>>
    /\ UNCHANGED pipeVars

ExtractOutcomes == {"live_stream", "too_short", "ok", "exception"}

\* ydl_info.extract_info(url, download=False) and what follows, up to the second
\* _save_used_url: a live stream and a too short source return no path
ExtractInfo(w, outcome) ==
    /\ wk[w].pc = "extract_info"
    /\ wk' = [wk EXCEPT ![w] = IF outcome \in {"live_stream", "too_short"}
                               THEN IdleWorker
                               ELSE [@ EXCEPT !.pc = "add_begin", !.op = "update"]]
    /\ used_urls' = IF outcome \in {"live_stream", "too_short"}
                    THEN ClaimAfterFetch(used_urls, wk[w].url) ELSE used_urls
    /\ UNCHANGED <<audio_hashes, dbLock, txnOpen, hmLock, proc,
                   legacy_urls, used_urls_json, legacy_hashes, hashes_json,
                   session_urls, session_ids, calls, urlRet, hashRet, fetches>>
    /\ UNCHANGED <<slices, raw_dir>>
    /\ UNCHANGED pipeVars

DownloadOutcomes == {"failed", "no_file", "conversion_failed"} \cup Hashes

\* ydl.download([url]), the search for the file, calculate_file_hash.  The download
\* raises ("failed": the except clause returns no path); or it leaves no file under
\* an expected name, or a container whose conversion fails: p stays None and the
\* last line, `return (p if p.exists() else None), metadata`, raises AttributeError
\* out of _download_one; or it leaves a file whose content hash is `outcome`
Download(w, outcome) ==
    /\ wk[w].pc = "download"
    /\ wk' = [wk EXCEPT ![w] = IF outcome = "failed"
                               THEN IdleWorker
                               ELSE IF outcome \in {"no_file", "conversion_failed"}
                               THEN [IdleWorker EXCEPT !.pc = "raised"]
                               ELSE [@ EXCEPT !.pc = "hash_begin", !.op = "file_hash",
                                              !.hash = outcome]]
    /\ used_urls' = IF outcome \in Hashes
                    THEN used_urls ELSE ClaimAfterFetch(used_urls, wk[w].url)
    /\ raw_dir' = IF outcome \in Hashes
                  THEN raw_dir \cup {[url |-> wk[w].url, hash |-> outcome, state |-> "fetched"]}
                  ELSE raw_dir
    /\ UNCHANGED <<audio_hashes, dbLock, txnOpen, hmLock, proc,
                   legacy_urls, used_urls_json, legacy_hashes, hashes_json,
                   session_urls, session_ids, calls, urlRet, hashRet, fetches>>
    /\ UNCHANGED slices
    /\ UNCHANGED pipeVars

\* download_candidates_for_term: `wav_path, metadata = fut.result()` raises again the
\* exception of _download_one; no handler is around it, nor around the call in
\* run_pipeline, so the batch and the run end with it and the pool thread is free
FutureResultRaises(w) ==
    /\ wk[w].pc = "raised"
    /\ wk' = [wk EXCEPT ![w] = IdleWorker]
    /\ UNCHANGED <<used_urls, audio_hashes, dbLock, txnOpen, hmLock, proc,
                   legacy_urls, used_urls_json, legacy_hashes, hashes_json,
                   session_urls, session_ids, calls, urlRet, hashRet, fetches>>
    /\ UNCHANGED <<slices, raw_dir>>
    /\ UNCHANGED pipeVars

Next ==
    \/ \E p \in Procs : StartProcess(p)
    \/ \E p \in Procs : PopulateUrlData(p)
    \/ \E p \in Procs : MigrateHashes(p)
    \/ \E p \in Procs : MigrateUrls(p)
    \/ \E w \in Workers, u \in URLS : CallAddUrl(w, u)
    \/ \E w \in Workers : AddUrlBegin(w)
    \/ \E w \in Workers : AddUrlSelect(w)
    \/ \E w \in Workers : AddUrlInsert(w)
    \/ \E w \in Workers, h \in Hashes : CallAddHash(w, h)
    \/ \E w \in Workers : AddHashBegin(w)
    \/ \E w \in Workers : AddHashSelect(w)
    \/ \E w \in Workers : AddHashInsert(w)
    \/ \E w \in Workers, u \in URLS : BeginDownloadOne(w, u)
    \/ \E w \in Workers, o \in ExtractOutcomes : ExtractInfo(w, o)
    \/ \E w \in Workers, o \in DownloadOutcomes : Download(w, o)
    \/ \E w \in Workers : FutureResultRaises(w)

(***************************************************************************)
(* pipeline.py: run_pipeline fills one bank of samples_per_bank slices per  *)
(* theme inside a session directory.  download_candidates_for_term is seen  *)
(* here by its result only, a list of new slice files in the candidates     *)
(* directory; its ledger steps are the ones of Spec.                        *)
(***************************************************************************)
\* SAMPLES_PER_BANK
samples_per_bank == 2

\* MAX_RETRIES_PER_THEME when it is set (0, the default, means no cap)
MaxRetries == 2

\* SEARCH_RESULTS_PER_THEME
search_batch == 4

\* SCORING_MIN_SIMILARITY
min_sim == 0

\* the number of slices one download_candidates_for_term call returns
BatchSizes == {0, 1, 2}

\* slices downloaded in all
MaxCands == 3

\* run_pipeline calls in all
MaxRuns == 2

\* the themes in the order of load_themes
theme_names == <<"Soft", "Loud">>

\* cosine similarities, scaled
Scores == {-1, 0}

Sessions == {"s1", "s2"}

\* the process the web application, and so the pipeline, runs in
PipelineProc == 1

Max(S) == CHOOSE x \in S : \A y \in S : y <= x

NoSims == [t \in ThemeNames |-> 0]

\* what the scorer does with one slice: similarities, an exception, or nothing
ScorerOutcomes ==
    {[kind |-> "scores", sims |-> s] : s \in [ThemeNames -> Scores]}
    \cup {[kind |-> "exception", sims |-> NoSims], [kind |-> "none", sims |-> NoSims]}

NoOutcome == [kind |-> "none", sims |-> NoSims]

\* no slicer call in progress
IdleSlicer ==
    [pc |-> "idle", fn |-> NULL, sound |-> <<>>, slices_per_video |-> 0,
     slice_stride_ms |-> 0, path_exists |-> FALSE, start |-> 0, taken |-> 0,
     segment_idx |-> 0, candidate_segments |-> <<>>, best_segments |-> <<>>, i |-> 0,
     out |-> <<>>, files |-> {}, fallback |-> FALSE, windows |-> <<>>, calls |-> 0]

\* download_candidates_for_term when no call is in progress; n counts the calls
IdleBatch ==
    [pc |-> "idle", entries |-> <<>>, items |-> <<>>, max_results |-> 0, workers |-> 0,
     item_index |-> 0, successful_downloads |-> 0, candidates |-> 0,
     futs |-> <<>>, wave |-> {}, n |-> 0]

\* tried and fetched are history: the search phrases given to
\* download_candidates_for_term for the theme so far, and whether the last round of
\* the while loop called it
\* the search terms of themes.json, cut into pieces at the commas: "p1, p2", "q",
\* and a term that holds nothing but a comma
Term_p == <<"p1", ",", "p2">>
Term_q == <<"q">>
Term_commas == <<",">>

\* theme_search_map of the themes.json the models run with
DefaultSearchMap == [t \in ThemeNames |-> IF t = "Soft" THEN Term_p ELSE Term_q]

\* the themes.json files load_themes can find: the second one has a theme whose
\* search term is a comma
SearchMaps == {DefaultSearchMap, [t \in ThemeNames |-> IF t = "Soft" THEN Term_p ELSE Term_commas]}

\* iterations of one loop counted in a behaviour
MaxSpins == 2

\* spins is history: the rounds of the loop that builds searches_for_theme;
\* exhausted_before is history: the themes whose retries had reached the cap, with
\* their bank short, when the run was started on an existing session
IdleRun == [pc |-> "idle", session_id |-> NULL, continued |-> FALSE, idx |-> 1,
            search_idx |-> 0, downloads_with_current_search |-> 0, candidates |-> <<>>,
            tried |-> {}, fetched |-> FALSE,
            theme_search_map |-> DefaultSearchMap, spins |-> 0, exhausted_before |-> {}]

\* the settings _download_one and _ydl_opts read from the environment, and
\* shutil.which('aria2c')
NoSettings == [DOWNLOAD_METHOD |-> "smart", has_aria2c |-> FALSE, ARIA2C_ENABLED |-> FALSE,
               YTDLP_USE_SECTIONS |-> FALSE, DOWNLOAD_CHUNK_SECONDS |-> 0]

\* the options of YoutubeDL the model follows; download_sections holds no range or
\* one, in milliseconds
NoOpts == [external_downloader |-> "none", download_sections |-> <<>>,
           postprocessors |-> FALSE, force_keyframes_at_cuts |-> FALSE]

\* no _download_one call has reached extract_info
IdleYdl == [pc |-> "idle", settings |-> NoSettings, video_duration |-> 0, clip_ms |-> 0,
            use_segments |-> FALSE, start_time |-> 0, end_time |-> 0, opts |-> NoOpts]

\* worker threads a server process creates in a behaviour
MaxThreads == 3

\* cleanup threads of stop_run that sleep at the same time
MaxCleanups == 2

\* the server as it starts: nothing runs, no thread exists. threads[t] is "none",
\* then "started" (Thread.start() was called), "in_pipeline" (_worker has set
\* running and called run_pipeline) and "done"; _run_thread is the thread started
\* last, or 0; session is whether progress or last_result holds a session id;
\* response (history) is the status the last request returned
IdleWeb == [running |-> FALSE, stopping |-> FALSE,
            threads |-> [t \in 1..MaxThreads |-> "none"], _run_thread |-> 0,
            cleanups |-> 0, session |-> FALSE, response |-> "none"]

\* no call of batch_expand_search_terms_v2 in progress; rounds (history) counts the
\* rounds of its `while len(expanded_queries) < samples_per_theme`
IdleExpander == [pc |-> "idle", use_expansion |-> FALSE, samples_per_theme |-> 0,
                 words |-> <<>>, unique_words |-> {}, expanded_queries |-> <<>>,
                 result |-> <<>>, rounds |-> 0]

\* scoring.py as imported: _model = None
IdleScorer == [_model |-> FALSE, load_attempts |-> 0, failure_logs |-> 0, failed_run |-> 0]

PipelineInitOf(scoring, caps) ==
    /\ session_dirs = {}
    /\ bank = [s \in Sessions |-> [t \in ThemeNames |-> {}]]
    /\ candidates_dir = {}
    /\ results = [t \in ThemeNames |-> 0]
    /\ retries = [t \in ThemeNames |-> 0]
    /\ run = IdleRun
    /\ stop_event = FALSE
    /\ scoring_enabled \in scoring
    /\ max_retries \in caps
    /\ last = [cand |-> 0, target |-> NULL, outcome |-> NoOutcome, dest |-> NULL]
    /\ runNo = 0
    /\ nextCand = 0
    /\ slicer = IdleSlicer
    /\ batch = IdleBatch
    /\ ydl = IdleYdl
    /\ web = IdleWeb
    /\ scorer = IdleScorer
    /\ expander = IdleExpander

PipelineInit == PipelineInitOf(BOOLEAN, {0, MaxRetries})

\* _count_in_bank: the *.wav files of the theme directory
_count_in_bank_Zero(theme, session_id) == 0

_count_in_bank(theme, session_id) ==
    IF session_id \in session_dirs THEN Cardinality(bank[session_id][theme]) ELSE 0

\* _move_to_theme: the first free number from max + 1 on (1 in an empty directory)
RECURSIVE FirstFree(_, _)
FirstFree(n, files) ==
    IF \E f \in files : f.num = n THEN FirstFree(n + 1, files) ELSE n

\* a number taken from the count of the files
NextNum_Count(files) == Cardinality(files) + 1

\* a file of a bank is named by its number: the name is the theme and the number
\* printed with %02d, and int() of that text is the number again
NextNum(files) ==
    FirstFree(IF files = {} THEN 1 ELSE Max({f.num : f \in files}) + 1, files)

\* a move that always writes number 1, over the file that has it
_move_to_theme_Overwrite(files, cand) ==
    {f \in files : f.num # 1} \cup {[num |-> 1, cand |-> cand, run |-> runNo]}

_move_to_theme(files, cand) ==
    files \cup {[num |-> NextNum(files), cand |-> cand, run |-> runNo]}

\* [target_theme] + [t for t in theme_names if t != target_theme]
ThemeOrder(target) ==
    <<target>> \o SelectSeq(theme_names, LAMBDA t : t # target)

\* torch.argmax: the index of the first maximal similarity
ArgMax(themes, sims) ==
    CHOOSE i \in 1..Len(themes) :
        /\ \A j \in 1..Len(themes) : sims[themes[j]] <= sims[themes[i]]
        /\ \A j \in 1..(i - 1) : sims[themes[j]] < sims[themes[i]]

best_theme_for_wav_FirstTheme(themes, sims) ==
    [name |-> themes[1], score |-> sims[themes[1]]]

best_theme_for_wav(themes, sims) ==
    [name |-> themes[ArgMax(themes, sims)], score |-> sims[themes[ArgMax(themes, sims)]]]

_assign_with_scoring_NoThreshold(themes, outcome) ==
    IF scoring_enabled /\ outcome.kind = "scores"
    THEN [theme |-> best_theme_for_wav(themes, outcome.sims).name, scored |-> TRUE,
          score |-> best_theme_for_wav(themes, outcome.sims).score]
    ELSE [theme |-> themes[1], scored |-> FALSE, score |-> 0]

\* an assignment that drops the slice when the scorer fails or returns nothing
_assign_with_scoring_DropUnscored(themes, outcome) ==
    IF scoring_enabled
    THEN IF outcome.kind = "scores" /\ best_theme_for_wav(themes, outcome.sims).score >= min_sim
         THEN [theme |-> best_theme_for_wav(themes, outcome.sims).name, scored |-> TRUE,
               score |-> best_theme_for_wav(themes, outcome.sims).score]
         ELSE [theme |-> NULL, scored |-> outcome.kind = "scores", score |-> 0]
    ELSE [theme |-> themes[1], scored |-> FALSE, score |-> 0]

\* _assign_with_scoring: (best_theme, score); theme NULL stands for (None, score)
_assign_with_scoring(themes, outcome) ==
    IF scoring_enabled /\ outcome.kind = "scores"
    THEN LET res == best_theme_for_wav(themes, outcome.sims)
         IN  IF res.score < min_sim
             THEN [theme |-> NULL, scored |-> TRUE, score |-> res.score]
             ELSE [theme |-> res.name, scored |-> TRUE, score |-> res.score]
    ELSE [theme |-> themes[1], scored |-> FALSE, score |-> 0]

\* retries after a slice fetched for target was moved to best_theme
RetriesAfterMove_Unchanged(r, target, best_theme) == r

RetriesAfterMove(r, target, best_theme) ==
    IF best_theme # target THEN [r EXCEPT ![target] = @ + 1] ELSE r

\* a stop callback that never reports the request
stop_cb_Never == FALSE

\* stop_cb: _stop_event.is_set
stop_cb == stop_event

\* a start that clears the session cache whether or not a session is continued
SessionCacheAtStart_AlwaysClear(cache, continued) == {}

\* `if not continue_session: clear_session_urls()`: one of the two sets of the
\* session cache after the start of a run
SessionCacheAtStart(cache, continued) == IF continued THEN cache ELSE {}

\* retries carried over from the run before
InitialRetries_Carried(r) == r

\* retries = {t: 0 for t in theme_names}
InitialRetries(r) == [t \in ThemeNames |-> 0]

CapReached_Never(cap, r) == FALSE

\* `if max_retries and retries[target_theme] >= max_retries: break`
CapReached(cap, r) == cap # 0 /\ r >= cap

\* run_pipeline up to the theme loop, started by /run (continue_session NULL) or
\* /continue.  new_id is what _generate_session_id returns, a name no directory has
\* yet (SESSION_ID is not set)
RunPipelineWith(continue_session, new_id, search_map) ==
    /\ run.pc = "idle"
    /\ runNo < MaxRuns
    /\ LET continued == continue_session # NULL /\ continue_session \in session_dirs
           session_id == IF continued THEN continue_session ELSE new_id
       IN  /\ IF continued THEN new_id = continue_session ELSE new_id \notin session_dirs
           /\ session_dirs' = session_dirs \cup {session_id}
           /\ session_urls' = [session_urls EXCEPT ![PipelineProc] =
                                 SessionCacheAtStart(@, continued)]
           /\ session_ids' = [session_ids EXCEPT ![PipelineProc] =
                                 SessionCacheAtStart(@, continued)]
           /\ results' = [t \in ThemeNames |-> _count_in_bank(t, session_id)]
           /\ retries' = InitialRetries(retries)
           /\ run' = [IdleRun EXCEPT !.pc = "theme_loop", !.session_id = session_id,
                                     !.continued = continued,
                                     !.theme_search_map = search_map,
                                     !.exhausted_before =
                                         {t \in ThemeNames :
                                            /\ continued
                                            /\ CapReached(max_retries, retries[t])
                                            /\ _count_in_bank(t, session_id)
                                                  < samples_per_bank}]
    /\ stop_event' = FALSE
    /\ runNo' = runNo + 1
    /\ UNCHANGED <<bank, candidates_dir, scoring_enabled, max_retries, last, nextCand>>
    /\ UNCHANGED <<slicer, batch, ydl, web, scorer, expander>>
    /\ UNCHANGED <<used_urls, audio_hashes, dbLock, txnOpen, hmLock, proc, legacy_urls,
                   used_urls_json, legacy_hashes, hashes_json, wk, calls, urlRet,
                   hashRet, fetches, slices, raw_dir>>

\* run_pipeline with the themes.json of the models
RunPipeline(continue_session, new_id) ==
    RunPipelineWith(continue_session, new_id, DefaultSearchMap)

\* [s.strip() for s in search_term.split(',') if s.strip()]
individual_searches(search_term) == SelectSeq(search_term, LAMBDA piece : piece # ",")

\* `while len(searches_for_theme) < samples_per_bank:
\* searches_for_theme.extend(individual_searches)`, then the cut to samples_per_bank
RECURSIVE ExtendSearches(_, _)
ExtendSearches(searches, individual) ==
    IF Len(searches) < samples_per_bank
    THEN ExtendSearches(searches \o individual, individual)
    ELSE SubSeq(searches, 1, samples_per_bank)

\* the loop above gets no entry to add and never ends
SplitNeverEnds(search_term) ==
    /\ \E i \in 1..Len(search_term) : search_term[i] = ","
    /\ individual_searches(search_term) = <<>>
    /\ samples_per_bank > 0

\* searches_for_theme without expanded searches, for every term whose list gets built:
\* the entries between the commas repeated up to samples_per_bank, or the single
\* term samples_per_bank times
SearchesOfTerm ==
    [search_term \in {Term_p, Term_q} |->
        IF \E i \in 1..Len(search_term) : search_term[i] = ","
        THEN ExtendSearches(<<>>, individual_searches(search_term))
        ELSE [i \in 1..samples_per_bank |-> search_term[1]]]

\* one round of "for idx, theme_obj in enumerate(theme_objects)" up to the while
\* loop: the searches of the theme are built before the stop flag is looked at
NextTheme ==
    /\ run.pc = "theme_loop"
    /\ IF run.idx > Len(theme_names)
       THEN run' = [run EXCEPT !.pc = "finish", !.fetched = FALSE]
       ELSE IF results[theme_names[run.idx]] >= samples_per_bank
       THEN run' = [run EXCEPT !.idx = @ + 1, !.fetched = FALSE]
       ELSE IF SplitNeverEnds(run.theme_search_map[theme_names[run.idx]])
       THEN run' = [run EXCEPT !.pc = "split_loop", !.fetched = FALSE]
       ELSE IF stop_cb
       THEN run' = [run EXCEPT !.pc = "finish", !.fetched = FALSE]
       ELSE run' = [run EXCEPT !.pc = "while_loop", !.search_idx = 0,
                               !.downloads_with_current_search = 0,
                               !.tried = {}, !.fetched = FALSE]
    /\ UNCHANGED <<session_dirs, bank, candidates_dir, results, retries, stop_event,
                   scoring_enabled, max_retries, last, runNo, nextCand>>
    /\ UNCHANGED <<slicer, batch, ydl, web, scorer, expander>>
    /\ UNCHANGED ledgerVars

\* the searches of a theme: samples_per_bank entries
searches_len == samples_per_bank

\* searches_for_theme: the search of Soft is "p1, p2", split at the commas and
\* repeated up to samples_per_bank entries; the search of Loud is the single term
\* "q", repeated samples_per_bank times
searches_for_theme(theme) == SearchesOfTerm[run.theme_search_map[theme]]

\* a loop that the retry counter never ends
max_per_search == IF search_batch \div 4 > 1 THEN search_batch \div 4 ELSE 1

\* the while loop is left for the next theme; its locals are dead until NextTheme
\* sets them again
LeaveWhile(fetched) ==
    [run EXCEPT !.pc = "theme_loop", !.idx = @ + 1, !.search_idx = 0,
                !.downloads_with_current_search = 0, !.tried = {}, !.fetched = fetched]

\* one round of "while results[target_theme] < samples_per_bank" up to the for loop;
\* n is the number of slices download_candidates_for_term returns
WhileRound(n) ==
    /\ run.pc = "while_loop"
    /\ nextCand + n <= MaxCands
    /\ LET target_theme == theme_names[run.idx]
           wrapped == IF run.search_idx >= searches_len THEN 0 ELSE run.search_idx
           rotate == run.downloads_with_current_search >= max_per_search
           search_idx == IF rotate THEN wrapped + 1 ELSE wrapped
           downloads == IF rotate THEN 0 ELSE run.downloads_with_current_search
           current_search == searches_for_theme(target_theme)[wrapped + 1]
       IN  IF \/ results[target_theme] >= samples_per_bank
              \/ stop_cb
              \/ CapReached(max_retries, retries[target_theme])
           THEN /\ n = 0
                /\ run' = LeaveWhile(FALSE)
                /\ UNCHANGED <<candidates_dir, nextCand>>
           ELSE IF n = 0
           THEN /\ run' = IF search_idx + 1 >= searches_len
                          THEN LeaveWhile(TRUE)
                          ELSE [run EXCEPT !.search_idx = search_idx + 1,
                                           !.downloads_with_current_search = 0,
                                           !.tried = @ \cup {current_search},
                                           !.fetched = TRUE]
                /\ UNCHANGED <<candidates_dir, nextCand>>
           ELSE /\ run' = [run EXCEPT !.pc = "for_loop", !.search_idx = search_idx,
                                      !.downloads_with_current_search = downloads + n,
                                      !.candidates = [i \in 1..n |-> nextCand + i],
                                      !.tried = @ \cup {current_search},
                                      !.fetched = TRUE]
                /\ candidates_dir' = candidates_dir \cup (nextCand + 1)..(nextCand + n)
                /\ nextCand' = nextCand + n
    /\ UNCHANGED <<session_dirs, bank, results, retries, stop_event, scoring_enabled,
                   max_retries, last, runNo>>
    /\ UNCHANGED <<slicer, batch, ydl, web, scorer, expander>>
    /\ UNCHANGED ledgerVars

\* one round of "for cand in candidates": the slice is scored, then discarded or moved
AssignStep(outcome) ==
    /\ run.pc = "for_loop"
    /\ IF run.candidates = <<>> \/ stop_cb
       THEN /\ outcome = NoOutcome
            /\ run' = [run EXCEPT !.pc = "while_loop", !.candidates = <<>>]
            /\ UNCHANGED <<bank, candidates_dir, results, retries, last>>
       ELSE LET cand == Head(run.candidates)
                target_theme == theme_names[run.idx]
                assigned == _assign_with_scoring(ThemeOrder(target_theme), outcome)
                best_theme == assigned.theme
            IN  /\ scoring_enabled \/ outcome = NoOutcome
                /\ candidates_dir' = candidates_dir \ {cand}
                /\ last' = [cand |-> cand, target |-> target_theme, outcome |-> outcome,
                            dest |-> best_theme]
                /\ IF best_theme = NULL
                   THEN /\ retries' = [retries EXCEPT ![target_theme] = @ + 1]
                        /\ run' = [run EXCEPT !.candidates = Tail(@)]
                        /\ UNCHANGED <<bank, results>>
                   ELSE /\ bank' = [bank EXCEPT ![run.session_id][best_theme] =
                                        _move_to_theme(@, cand)]
                        /\ results' = [results EXCEPT ![best_theme] = @ + 1]
                        /\ retries' = RetriesAfterMove(retries, target_theme, best_theme)
                        /\ run' = IF results'[target_theme] >= samples_per_bank
                                  THEN [run EXCEPT !.pc = "while_loop", !.candidates = <<>>]
                                  ELSE [run EXCEPT !.candidates = Tail(@)]
    /\ UNCHANGED <<session_dirs, stop_event, scoring_enabled, max_retries, runNo, nextCand>>
    /\ UNCHANGED <<slicer, batch, ydl, web, expander>>
    /\ UNCHANGED ledgerVars

\* the round with the scorer taken by what it returns or raises
AssignCandidate(outcome) == AssignStep(outcome) /\ UNCHANGED scorer

\* the round with the scorer of scoring.py: best_theme_for_wav calls _ensure_model,
\* which returns at once when _model is set and else tries to load the model; the
\* load succeeds (load_ok) or raises, and _assign_with_scoring logs every
\* exception of the call
ScoreCandidate(outcome, load_ok) ==
    /\ AssignStep(outcome)
    /\ IF run.candidates = <<>> \/ stop_cb \/ ~scoring_enabled
       THEN load_ok /\ UNCHANGED scorer
       ELSE IF scorer._model
       THEN /\ load_ok
            /\ scorer' = IF outcome.kind = "exception"
                          THEN [scorer EXCEPT !.failure_logs = @ + 1]
                          ELSE scorer
       ELSE IF load_ok
       THEN scorer' = [scorer EXCEPT !._model = TRUE, !.load_attempts = @ + 1,
                                     !.failure_logs = IF outcome.kind = "exception"
                                                      THEN @ + 1 ELSE @]
       ELSE /\ outcome.kind = "exception"
            /\ scorer' = [scorer EXCEPT !.load_attempts = @ + 1, !.failure_logs = @ + 1,
                                        !.failed_run = runNo]

\* run_pipeline returns; the worker thread of web.py clears the stop event
FinishRun ==
    /\ run.pc = "finish"
    /\ run' = IdleRun
    /\ stop_event' = FALSE
    /\ UNCHANGED <<session_dirs, bank, candidates_dir, results, retries, scoring_enabled,
                   max_retries, last, runNo, nextCand>>
    /\ UNCHANGED <<slicer, batch, ydl, web, scorer, expander>>
    /\ UNCHANGED ledgerVars

\* POST /run/stop while a run is in progress
stop_run ==
    /\ run.pc # "idle"
    /\ ~stop_event
    /\ stop_event' = TRUE
    /\ UNCHANGED <<session_dirs, bank, candidates_dir, results, retries, run,
                   scoring_enabled, max_retries, last, runNo, nextCand>>
    /\ UNCHANGED <<slicer, batch, ydl, web, scorer, expander>>
    /\ UNCHANGED ledgerVars

\* one round of `while len(searches_for_theme) < samples_per_bank:
\* searches_for_theme.extend(individual_searches)` with no entry to add: the list
\* stays empty and the condition stays true; the stop flag is not looked at
SplitLoopRound ==
    /\ run.pc = "split_loop"
    /\ run.spins < MaxSpins
    /\ run' = [run EXCEPT !.spins = @ + 1]
    /\ UNCHANGED <<session_dirs, bank, candidates_dir, results, retries, stop_event,
                   scoring_enabled, max_retries, last, runNo, nextCand>>
    /\ UNCHANGED <<slicer, batch, ydl, web, scorer, expander>>
    /\ UNCHANGED ledgerVars

PipelineNext ==
    \/ \E cs \in Sessions \cup {NULL}, id \in Sessions : RunPipeline(cs, id)
    \/ NextTheme
    \/ \E n \in BatchSizes : WhileRound(n)
    \/ \E outcome \in ScorerOutcomes : AssignCandidate(outcome)
    \/ FinishRun
    \/ stop_run

\* the ledger under concurrent callers, no pipeline run in progress
Init == LedgerInit /\ PipelineInitOf({FALSE}, {0})

Spec == Init /\ [][Next]_vars

\* mark_url_used_in_session(url): normalize_url is applied to url, and url, the
\* normalized URL and the video id go into the session cache
mark_url_used_in_session(url) ==
    /\ session_urls' = [session_urls EXCEPT ![PipelineProc] =
                          @ \cup {url, normalize_url(url).normalized_url}]
    /\ session_ids' = [session_ids EXCEPT ![PipelineProc] =
                          IF normalize_url(url).video_id # NULL
                          THEN @ \cup {normalize_url(url).video_id} ELSE @]
    /\ UNCHANGED <<used_urls, audio_hashes, dbLock, txnOpen, hmLock, proc, legacy_urls,
                   used_urls_json, legacy_hashes, hashes_json, wk, calls, urlRet,
                   hashRet, fetches, slices, raw_dir>>
    /\ UNCHANGED pipeVars

NormalizeNext == \E url \in UrlForms : mark_url_used_in_session(url)

\* normalize_url applied to URLs of every form, in any order
SpecNormalize == Init /\ [][NormalizeNext]_vars

\* download_candidates_for_term, called by the while loop of run_pipeline, runs
\* _download_one on a search result: its first statement marks the URL in the
\* session cache
DownloadMarksUrl(url) ==
    /\ run.pc = "while_loop"
    /\ ~stop_cb
    /\ mark_url_used_in_session(url)

SessionNext ==
    \/ PipelineNext
    \/ \E url \in URLS : DownloadMarksUrl(url)

\* run_pipeline with the session cache its downloads fill: scoring disabled, no
\* retry cap
InitSession == LedgerInitOf({[urls |-> {}, hashes |-> {}]}) /\ PipelineInitOf({FALSE}, {0})

SpecSession == InitSession /\ [][SessionNext]_vars

(***************************************************************************)
(* downloader.py: the slicers.  _process_to_candidate_slices walks a       *)
(* fetched file from offset 0 in steps of slice_stride_ms;                 *)
(* _process_to_best_candidate_slices scores windows at a finer stride and  *)
(* keeps the best.  Times are in milliseconds.                             *)
(***************************************************************************)
\* CLIP_SECONDS * 1000
clip_ms == 2000

\* "segment_idx < 20": the limit of windows _process_to_best_candidate_slices tests
max_tests == 20

\* slicer calls in all
MaxSlicings == 2

\* the fetched files: len(sound), the length of the silence they begin with, and
\* how the scorer rates their windows against the prompt of the theme
Sounds ==
    {[name |-> "short", len |-> 1500, silent |-> 0, scores |-> "rising"],
     [name |-> "one", len |-> 2000, silent |-> 0, scores |-> "rising"],
     [name |-> "intro", len |-> 8000, silent |-> 4000, scores |-> "falling"],
     [name |-> "chunk", len |-> 10000, silent |-> 0, scores |-> "rising"],
     [name |-> "mute", len |-> 5000, silent |-> 0, scores |-> "none"]}

\* SLICES_PER_VIDEO
SlicesPerVideo == {1, 3}

\* SLICE_STRIDE_SECONDS * 1000
Strides == {0, 2000, 8000}

\* calculate_file_hash of the slice exported from sound[start : start + clip_ms]:
\* equal content gives equal hashes, and silence is the same in every file
SliceHash(sound, start) ==
    IF start + clip_ms <= sound.silent THEN <<"silence">> ELSE <<sound.name, start>>

\* scoring.best_theme_for_wav on that window gives a similarity; it returns None
\* or raises on every window of a file the scorer cannot rate
HasScore(sound, start) == sound.scores # "none"

ScoreAt(sound, start) ==
    CASE sound.scores = "rising" -> start \div 100
      [] sound.scores = "falling" -> 0 - (start \div 100)
      [] OTHER -> 0

\* a step that does not floor the stride at 1
NextStart_NoFloor(start, slice_stride_ms) == start + slice_stride_ms

\* start += max(slice_stride_ms, 1)
NextStart(start, slice_stride_ms) ==
    start + (IF slice_stride_ms > 1 THEN slice_stride_ms ELSE 1)

\* test_stride_ms = max(200, slice_stride_ms // 4)
test_stride_ms(slice_stride_ms) ==
    IF slice_stride_ms \div 4 > 200 THEN slice_stride_ms \div 4 ELSE 200

\* a selection that takes the windows in the order they were tested
SortByScore_Unsorted(segs) == segs

RECURSIVE InsertByScore(_, _)
InsertByScore(sorted, seg) ==
    IF sorted = <<>> THEN <<seg>>
    ELSE IF Head(sorted).score >= seg.score
    THEN <<Head(sorted)>> \o InsertByScore(Tail(sorted), seg)
    ELSE <<seg>> \o sorted

\* candidate_segments.sort(key=lambda x: x['score'], reverse=True): a stable sort,
\* windows of equal score stay in the order they were tested
RECURSIVE SortByScore(_)
SortByScore(segs) ==
    IF segs = <<>> THEN <<>>
    ELSE InsertByScore(SortByScore(SubSeq(segs, 1, Len(segs) - 1)), segs[Len(segs)])

\* candidate_segments[:slices_per_video]
FirstN(segs, n) == SubSeq(segs, 1, IF Len(segs) < n THEN Len(segs) ELSE n)

\* hash_manager.add_hash(slice_hash, str(out_path)) seen from the slicer: False when
\* a row has the hash, and when the call ends in its except clause (busy)
SlicerAddHash(h, busy) == ~busy /\ ~has_hash(audio_hashes, h)

\* the rows of audio_hashes after that call
HashesAfter(h, busy) ==
    IF SlicerAddHash(h, busy) THEN audio_hashes \cup {[hash |-> h, url |-> NoUrl]}
    ELSE audio_hashes

\* the slicers change the slicer and audio_hashes only
SlicerFrame ==
    /\ UNCHANGED <<used_urls, dbLock, txnOpen, hmLock, proc, legacy_urls, used_urls_json,
                   legacy_hashes, hashes_json, session_urls, session_ids, wk, calls,
                   urlRet, hashRet, fetches, slices, raw_dir>>
    /\ UNCHANGED <<session_dirs, bank, candidates_dir, results, retries, run, stop_event,
                   scoring_enabled, max_retries, last, runNo, nextCand, batch, ydl, web, scorer, expander>>

\* run_clap = scoring.is_enabled() and metadata and 'theme_prompt' in metadata; the
\* metadata download_candidates_for_term passes has the prompt of the theme
run_clap == scoring_enabled

\* a slicer is called on a fetched file: the statements up to the first loop
StartSlicing(fn, sound, n, stride) ==
    /\ slicer.pc = "idle"
    /\ slicer.calls < MaxSlicings
    /\ LET called == [IdleSlicer EXCEPT !.fn = fn, !.sound = sound,
                                        !.slices_per_video = n, !.slice_stride_ms = stride,
                                        !.path_exists = TRUE, !.calls = slicer.calls + 1]
       IN  slicer' =
             IF sound.len < clip_ms
             THEN [called EXCEPT !.pc = "returned", !.path_exists = FALSE]
             ELSE IF fn = "best" /\ run_clap
             THEN [called EXCEPT !.pc = "test_loop"]
             ELSE [called EXCEPT !.pc = "slice_loop", !.fallback = (fn = "best")]
    /\ UNCHANGED audio_hashes
    /\ SlicerFrame

\* one round of "while taken < slices_per_video and start + clip_ms <= len(sound)"
\* of _process_to_candidate_slices, or the end of the loop, path.unlink and return.
\* On a False from add_hash the slice is removed and `start += stride_ms` raises
\* NameError (no name stride_ms is defined); the except clause around it breaks
\* the loop
SliceStep(busy) ==
    /\ slicer.pc = "slice_loop"
    /\ LET start == slicer.start
           h == SliceHash(slicer.sound, start)
           name == <<"s", slicer.taken + 1>>
       IN  IF slicer.taken < slicer.slices_per_video /\ start + clip_ms <= slicer.sound.len
           THEN /\ audio_hashes' = HashesAfter(h, busy)
                /\ slicer' =
                     IF SlicerAddHash(h, busy)
                     THEN [slicer EXCEPT
                             !.out = Append(@, [start |-> start, hash |-> h, scored |-> FALSE,
                                                score |-> 0]),
                             !.files = @ \cup {[name |-> name, hash |-> h]},
                             !.windows = Append(@, start),
                             !.taken = @ + 1,
                             !.start = NextStart(@, slicer.slice_stride_ms)]
                     ELSE [slicer EXCEPT !.pc = "returned", !.path_exists = FALSE,
                                         !.windows = Append(@, start)]
           ELSE /\ busy = FALSE
                /\ slicer' = [slicer EXCEPT !.pc = "returned", !.path_exists = FALSE]
                /\ UNCHANGED audio_hashes
    /\ SlicerFrame

\* one round of "while start + clip_ms <= len(sound) and segment_idx < 20" of
\* _process_to_best_candidate_slices, or the end of the loop: the sort and the
\* selection, or the call of _process_to_candidate_slices when no window has a score
TestSegment ==
    /\ slicer.pc = "test_loop"
    /\ LET start == slicer.start
           scored == HasScore(slicer.sound, start)
           score == ScoreAt(slicer.sound, start)
           temp == [name |-> <<"temp", slicer.segment_idx>>,
                    hash |-> SliceHash(slicer.sound, start)]
       IN  slicer' =
             IF start + clip_ms <= slicer.sound.len /\ slicer.segment_idx < max_tests
             THEN [slicer EXCEPT
                     !.candidate_segments =
                         IF scored
                         THEN Append(@, [start_ms |-> start, score |-> score,
                                         segment_idx |-> slicer.segment_idx])
                         ELSE @,
                     !.files = IF scored THEN @ \cup {temp} ELSE @,
                     !.start = @ + test_stride_ms(slicer.slice_stride_ms),
                     !.segment_idx = @ + 1]
             ELSE IF slicer.candidate_segments # <<>>
             THEN [slicer EXCEPT
                     !.pc = "finalize",
                     !.candidate_segments = SortByScore(@),
                     !.best_segments =
                         FirstN(SortByScore(slicer.candidate_segments),
                                slicer.slices_per_video),
                     !.i = 1]
             ELSE [slicer EXCEPT !.pc = "slice_loop", !.fallback = TRUE, !.start = 0,
                                 !.taken = 0]
    /\ UNCHANGED audio_hashes
    /\ SlicerFrame

\* one round of "for i, segment_info in enumerate(best_segments)": the temporary
\* file gets its final name and add_hash decides whether it stays; after the last
\* round the temporary files left are removed, then path.unlink and return
FinalizeSegment(busy) ==
    /\ slicer.pc = "finalize"
    /\ IF slicer.i <= Len(slicer.best_segments)
       THEN LET seg == slicer.best_segments[slicer.i]
                h == SliceHash(slicer.sound, seg.start_ms)
                temp == [name |-> <<"temp", seg.segment_idx>>, hash |-> h]
                final == [name |-> <<"s", slicer.i>>, hash |-> h]
            IN  /\ audio_hashes' = HashesAfter(h, busy)
                /\ slicer' =
                     IF SlicerAddHash(h, busy)
                     THEN [slicer EXCEPT
                             !.out = Append(@, [start |-> seg.start_ms, hash |-> h,
                                                scored |-> TRUE, score |-> seg.score]),
                             !.files = (@ \ {temp}) \cup {final},
                             !.i = @ + 1]
                     ELSE [slicer EXCEPT !.files = @ \ {temp}, !.i = @ + 1]
       ELSE /\ busy = FALSE
            /\ slicer' = [slicer EXCEPT
                            !.pc = "returned", !.path_exists = FALSE,
                            !.files = {f \in @ : f.name[1] # "temp"}]
            /\ UNCHANGED audio_hashes
    /\ SlicerFrame

\* the caller has the list of slices
SlicerReturns ==
    /\ slicer.pc = "returned"
    /\ slicer' = [IdleSlicer EXCEPT !.calls = slicer.calls]
    /\ UNCHANGED audio_hashes
    /\ SlicerFrame

SliceNext ==
    \/ \E fn \in {"sequential", "best"}, sound \in Sounds, n \in SlicesPerVideo,
          stride \in Strides : StartSlicing(fn, sound, n, stride)
    \/ \E busy \in BOOLEAN : SliceStep(busy)
    \/ TestSegment
    \/ \E busy \in BOOLEAN : FinalizeSegment(busy)
    \/ SlicerReturns

\* the slicers on fetched files, with and without a scorer
InitSlice == LedgerInitOf({[urls |-> {}, hashes |-> {}]}) /\ PipelineInitOf(BOOLEAN, {0})

SpecSlice == InitSlice /\ [][SliceNext]_vars

(***************************************************************************)
(* downloader.download_candidates_for_term: _extract_search, then waves of  *)
(* _download_one calls on a thread pool, each result taken by the loop over *)
(* as_completed and sliced.  _download_one is seen here by its result and   *)
(* by what it leaves in the ledger and in the session cache; the slicer by  *)
(* the number of slices it returns.                                         *)
(***************************************************************************)
\* calls of download_candidates_for_term in one behaviour
MaxBatches == 2

\* the entries (id, url) a search can give, in the order of the search
AllEntries ==
    <<<<"a", Watch_a>>, <<"b", Watch_b>>, <<"c", Watch_c>>, <<"a", Nocookie_a>>>>

\* the entries of AllEntries at the positions in S, in order
EntriesAt(S) ==
    LET F[i \in 0..Len(AllEntries)] ==
            IF i = 0 THEN <<>>
            ELSE IF i \in S THEN Append(F[i-1], AllEntries[i]) ELSE F[i-1]
    IN  F[Len(AllEntries)]

\* search_multiplier
search_multiplier == 2

\* ytsearchN gives at most N = min(96, max_results * search_multiplier) entries
SearchResults(max_results) ==
    {EntriesAt(S) : S \in {T \in SUBSET (1..Len(AllEntries)) :
                              Cardinality(T) <= max_results * search_multiplier}}

\* max_results (search_batch of run_pipeline) and download_workers
MaxResultsValues == {1, 2}

DownloadWorkers == {1, 2}

\* a wave as large as the rest of the list
BatchSize_Unbounded(workers, needed, remaining) == remaining

\* batch_size = min(workers, max_results - successful_downloads, len(items) - item_index)
BatchSize(workers, needed, remaining) == Min({workers, needed, remaining})

\* the filter loop of _extract_search over the entries of the search
_extract_search(entries) ==
    SelectSeq(entries, LAMBDA e : ExtractSearchKeeps(PipelineProc, e[1], e[2]))

BatchFrame ==
    /\ UNCHANGED <<audio_hashes, dbLock, txnOpen, hmLock, proc, legacy_urls,
                   used_urls_json, legacy_hashes, hashes_json, wk, calls, urlRet,
                   hashRet, fetches, slices, raw_dir>>
    /\ UNCHANGED <<session_dirs, bank, candidates_dir, results, retries, run, stop_event,
                   scoring_enabled, max_retries, last, runNo, nextCand, slicer, ydl, web, scorer, expander>>

\* the call: items = _extract_search(...), `if not items: return candidates`,
\* workers = max(1, int(download_workers))
CallDownloadCandidates(entries, max_results, download_workers) ==
    /\ batch.pc = "idle"
    /\ batch.n < MaxBatches
    /\ LET items == _extract_search(entries)
       IN  batch' = [IdleBatch EXCEPT
                        !.pc = IF items = <<>> THEN "returned" ELSE "loop",
                        !.entries = entries,
                        !.items = items,
                        !.max_results = max_results,
                        !.workers = Max({1, download_workers}),
                        !.n = batch.n + 1]
    /\ UNCHANGED <<used_urls, session_urls, session_ids>>
    /\ BatchFrame

FutRunning == [result |-> "running", processed |-> FALSE]

\* the head of the while loop: the next wave is submitted to a new pool, or the
\* condition is false (the `break` after the pool is the same test) and the
\* candidates are returned
SubmitWave ==
    /\ batch.pc = "loop"
    /\ IF /\ batch.successful_downloads < batch.max_results
          /\ batch.item_index < Len(batch.items)
       THEN LET batch_size == BatchSize(batch.workers,
                                        batch.max_results - batch.successful_downloads,
                                        Len(batch.items) - batch.item_index)
                last_index == batch.item_index + batch_size
            IN  batch' = [batch EXCEPT
                             !.pc = "wave",
                             !.item_index = last_index,
                             !.wave = (batch.item_index + 1)..last_index,
                             !.futs = [i \in 1..last_index |->
                                          IF i <= batch.item_index
                                          THEN batch.futs[i] ELSE FutRunning]]
       ELSE batch' = [batch EXCEPT !.pc = "returned"]
    /\ UNCHANGED <<used_urls, session_urls, session_ids>>
    /\ BatchFrame

\* what a _download_one that has claimed its URL ends with: no path, the path of
\* the fetched file, or the AttributeError of its last line
FetchResults == {"none", "path", "raised"}

\* _download_one on item i in a pool thread: the URL goes into the session cache;
\* a URL the ledger has, or one add_url does not claim (row found, or sqlite3.Error:
\* sqlite_error), gives no path; a claimed one ends with `outcome`
DownloadOne(i, sqlite_error, outcome) ==
    /\ batch.pc \in {"wave", "closing", "unwinding"}
    /\ i \in batch.wave
    /\ batch.futs[i].result = "running"
    /\ LET url == batch.items[i][2]
           claimed == /\ ~has_url(used_urls, url)
                      /\ ~UrlRowExists(used_urls, url)
                      /\ ~sqlite_error
       IN  /\ session_urls' = [session_urls EXCEPT ![PipelineProc] =
                                  @ \cup {url, normalize_url(url).normalized_url}]
           /\ session_ids' = [session_ids EXCEPT ![PipelineProc] =
                                  IF normalize_url(url).video_id # NULL
                                  THEN @ \cup {normalize_url(url).video_id} ELSE @]
           /\ ~claimed => outcome = "none"
           /\ used_urls' = IF claimed
                           THEN used_urls \cup {NewUrlRow(url, ThemeOfProc(PipelineProc))}
                           ELSE used_urls
           /\ batch' = [batch EXCEPT !.futs[i].result = outcome]
    /\ BatchFrame

\* `for fut in as_completed(futs)` gives a completed future i: fut.result() raises
\* the exception of _download_one again, or gives no path, or a path that the slicer
\* turns into k slices; a source with slices counts as a success, and the loop is
\* left once max_results of them are there
ProcessResult(i, k) ==
    /\ batch.pc = "wave"
    /\ i \in batch.wave
    /\ batch.futs[i].result # "running"
    /\ ~batch.futs[i].processed
    /\ batch.futs[i].result # "path" => k = 0
    /\ LET successful == batch.successful_downloads + (IF k > 0 THEN 1 ELSE 0)
       IN  batch' = [batch EXCEPT
                        !.futs[i].processed = TRUE,
                        !.successful_downloads = successful,
                        !.candidates = @ + k,
                        !.pc = IF batch.futs[i].result = "raised" THEN "unwinding"
                               ELSE IF k > 0 /\ successful >= batch.max_results
                               THEN "closing"
                               ELSE "wave"]
    /\ UNCHANGED <<used_urls, session_urls, session_ids>>
    /\ BatchFrame

\* the end of the `with ThreadPoolExecutor` block: shutdown(wait=True) waits for
\* the futures still running; the for loop has ended (every future of the wave was
\* given by as_completed) or was left by `break`
EndWave ==
    /\ batch.pc \in {"wave", "closing"}
    /\ \A i \in batch.wave : batch.futs[i].result # "running"
    /\ batch.pc = "wave" => \A i \in batch.wave : batch.futs[i].processed
    /\ batch' = [batch EXCEPT !.pc = "loop", !.wave = {}]
    /\ UNCHANGED <<used_urls, session_urls, session_ids>>
    /\ BatchFrame

\* the exception of fut.result() leaves the `with` block, which waits for the
\* running futures, and then download_candidates_for_term
BatchRaises ==
    /\ batch.pc = "unwinding"
    /\ \A i \in batch.wave : batch.futs[i].result # "running"
    /\ batch' = [batch EXCEPT !.pc = "raised"]
    /\ UNCHANGED <<used_urls, session_urls, session_ids>>
    /\ BatchFrame

\* the caller has the list of candidates, or the exception
BatchEnds ==
    /\ batch.pc \in {"returned", "raised"}
    /\ batch' = [IdleBatch EXCEPT !.n = batch.n]
    /\ UNCHANGED <<used_urls, session_urls, session_ids>>
    /\ BatchFrame

BatchNext ==
    \/ \E max_results \in MaxResultsValues, download_workers \in DownloadWorkers :
          \E entries \in SearchResults(max_results) :
              CallDownloadCandidates(entries, max_results, download_workers)
    \/ SubmitWave
    \/ \E i \in 1..Len(AllEntries), sqlite_error \in BOOLEAN, outcome \in FetchResults :
          DownloadOne(i, sqlite_error, outcome)
    \/ \E i \in 1..Len(AllEntries), k \in 0..1 : ProcessResult(i, k)
    \/ EndWave
    \/ BatchRaises
    \/ BatchEnds

InitBatch == LedgerInitOf({[urls |-> {}, hashes |-> {}]}) /\ PipelineInitOf({FALSE}, {0})

\* calls of download_candidates_for_term, one after the other, in one process
SpecBatch == InitBatch /\ [][BatchNext]_vars

(***************************************************************************)
(* pipeline._move_to_theme applied to bank directories that hold files of   *)
(* earlier runs, some of them removed since.                                *)
(***************************************************************************)
\* the numbers of the files a bank directory can hold at the start
ExistingNumbers == 1..3

\* the bank directories of session s1 at the start: any files of an earlier run
ExistingBanks ==
    {[s \in Sessions |->
        [t \in ThemeNames |->
            IF s = "s1" THEN {[num |-> n, cand |-> 0, run |-> 0] : n \in nums[t]} ELSE {}]] :
        nums \in [ThemeNames -> SUBSET ExistingNumbers]}

\* final_path = _move_to_theme(cand, best_theme, session_dir)
MoveCandidate(session_id, best_theme, cand) ==
    /\ cand \in candidates_dir
    /\ session_id \in session_dirs
    /\ bank' = [bank EXCEPT ![session_id][best_theme] = _move_to_theme(@, cand)]
    /\ candidates_dir' = candidates_dir \ {cand}
    /\ UNCHANGED <<session_dirs, results, retries, run, stop_event, scoring_enabled,
                   max_retries, last, runNo, nextCand, slicer, batch, ydl, web, scorer, expander>>
    /\ UNCHANGED ledgerVars

MoveNext ==
    \E session_id \in Sessions, best_theme \in ThemeNames, cand \in 1..MaxCands :
        MoveCandidate(session_id, best_theme, cand)

InitMove ==
    /\ LedgerInitOf({[urls |-> {}, hashes |-> {}]})
    /\ session_dirs = Sessions
    /\ bank \in ExistingBanks
    /\ candidates_dir = 1..MaxCands
    /\ results = [t \in ThemeNames |-> 0]
    /\ retries = [t \in ThemeNames |-> 0]
    /\ run = IdleRun
    /\ stop_event = FALSE
    /\ scoring_enabled = FALSE
    /\ max_retries = 0
    /\ last = [cand |-> 0, target |-> NULL, outcome |-> NoOutcome, dest |-> NULL]
    /\ runNo = 0
    /\ nextCand = MaxCands
    /\ slicer = IdleSlicer
    /\ batch = IdleBatch
    /\ ydl = IdleYdl
    /\ web = IdleWeb
    /\ scorer = IdleScorer
    /\ expander = IdleExpander

\* candidate slices moved one after the other into the banks of two sessions
SpecMove == InitMove /\ [][MoveNext]_vars

(***************************************************************************)
(* _download_one from extract_info to YoutubeDL(opts): the strategy, the   *)
(* range and the options                                                   *)
(***************************************************************************)

\* the longest source, in seconds
MaxDuration == 9

\* info.get('duration', 0): 0 when the extractor gives none
Durations == 0..MaxDuration

Settings ==
    [DOWNLOAD_METHOD : {"smart", "segment", "aria2c"}, has_aria2c : BOOLEAN,
     ARIA2C_ENABLED : BOOLEAN, YTDLP_USE_SECTIONS : BOOLEAN,
     DOWNLOAD_CHUNK_SECONDS : {2, 4}]

\* clip lengths in milliseconds: a whole number of seconds and one that is not
ClipLengths == {clip_ms, 2500}

\* int(round(ms/1000)): Python rounds a half to the even neighbour
RoundSeconds(ms) ==
    LET q == ms \div 1000
        r == ms % 1000
    IN  IF r > 500 \/ (r = 500 /\ q % 2 = 1) THEN q + 1 ELSE q

\* _ydl_opts(term, max_results, clip_ms, logger); clip is <<>> for clip_ms=None
_ydl_opts(s, clip) ==
    LET use_aria == IF s.DOWNLOAD_METHOD = "aria2c" THEN s.has_aria2c
                    ELSE IF s.DOWNLOAD_METHOD = "smart"
                    THEN s.has_aria2c /\ s.ARIA2C_ENABLED
                    ELSE FALSE
    IN  [postprocessors |-> clip # <<>>,
         external_downloader |-> IF use_aria THEN "aria2c" ELSE "none",
         download_sections |->
            IF s.YTDLP_USE_SECTIONS /\ clip # <<>> /\ clip[1] > 0
            THEN <<[from |-> 0, to |-> 1000 * Max({1, RoundSeconds(clip[1])})]>>
            ELSE <<>>,
         force_keyframes_at_cuts |-> FALSE]

\* effective_download_seconds = max(download_chunk_seconds, clip_seconds), in
\* milliseconds
EffectiveMs(s, clip) == Max({1000 * s.DOWNLOAD_CHUNK_SECONDS, clip})

\* info = ydl_info.extract_info(url, download=False) of a source that is no live
\* stream
ReadDuration(s, video_duration, clip) ==
    /\ ydl.pc = "idle"
    /\ ydl' = [IdleYdl EXCEPT !.pc = "info", !.settings = s,
                              !.video_duration = video_duration, !.clip_ms = clip]
    /\ UNCHANGED <<session_dirs, bank, candidates_dir, results, retries, run, stop_event,
                   scoring_enabled, max_retries, last, runNo, nextCand, slicer, batch, web, scorer,
                   expander>>
    /\ UNCHANGED ledgerVars

\* from the length check to ydl = YoutubeDL(...): a source shorter than the clip is
\* given up, else the strategy is chosen and the options are built
BuildOptions ==
    /\ ydl.pc = "info"
    /\ LET s == ydl.settings
           D == ydl.video_duration
           E == EffectiveMs(s, ydl.clip_ms)
           use_segments == IF s.DOWNLOAD_METHOD = "segment" THEN TRUE
                           ELSE IF s.DOWNLOAD_METHOD = "aria2c" THEN FALSE
                           ELSE D # 0 /\ 1000 * D > E
           center_time == D \div 2
           start_time == Max({0, center_time - (E \div 2000)})
           end_time == Min({1000 * D, 1000 * start_time + E + 2000})
       IN  IF D # 0 /\ 1000 * D < ydl.clip_ms
           THEN ydl' = [ydl EXCEPT !.pc = "skipped"]
           ELSE IF use_segments
           THEN ydl' = [ydl EXCEPT
                          !.pc = "ready", !.use_segments = TRUE,
                          !.start_time = start_time, !.end_time = end_time,
                          !.opts = [_ydl_opts(s, <<>>) EXCEPT
                                      !.download_sections =
                                          <<[from |-> 1000 * start_time, to |-> end_time]>>,
                                      !.force_keyframes_at_cuts = TRUE,
                                      !.postprocessors = FALSE,
                                      !.external_downloader = "ffmpeg"]]
           ELSE ydl' = [ydl EXCEPT !.pc = "ready",
                                   !.opts = _ydl_opts(s, <<ydl.clip_ms>>)]
    /\ UNCHANGED <<session_dirs, bank, candidates_dir, results, retries, run, stop_event,
                   scoring_enabled, max_retries, last, runNo, nextCand, slicer, batch, web, scorer,
                   expander>>
    /\ UNCHANGED ledgerVars

\* _download_one goes on to the download, or has returned None
LeaveOptions ==
    /\ ydl.pc \in {"ready", "skipped"}
    /\ ydl' = IdleYdl
    /\ UNCHANGED <<session_dirs, bank, candidates_dir, results, retries, run, stop_event,
                   scoring_enabled, max_retries, last, runNo, nextCand, slicer, batch, web, scorer,
                   expander>>
    /\ UNCHANGED ledgerVars

OptionsNext ==
    \/ \E s \in Settings, video_duration \in Durations, clip \in ClipLengths :
          ReadDuration(s, video_duration, clip)
    \/ BuildOptions
    \/ LeaveOptions

InitOptions ==
    LedgerInitOf({[urls |-> {}, hashes |-> {}]}) /\ PipelineInitOf({FALSE}, {0})

\* the strategy and the options of _download_one under every setting, duration
\* and clip length
SpecOptions == InitOptions /\ [][OptionsNext]_vars

(***************************************************************************)
(* web.py: the requests that start and stop runs, the worker threads       *)
(***************************************************************************)

WebFrame ==
    /\ UNCHANGED <<session_dirs, bank, candidates_dir, results, retries, run,
                   scoring_enabled, max_retries, last, runNo, nextCand, slicer, batch, ydl,
                   scorer, expander>>
    /\ UNCHANGED ledgerVars

\* Thread.is_alive() of _run_thread
RunThreadAlive ==
    web._run_thread # 0 /\ web.threads[web._run_thread] \in {"started", "in_pipeline"}

\* `_stop_event.clear()`, `_run_thread = threading.Thread(target=_worker)`,
\* `_run_thread.start()`: the statements of trigger_run and continue_run after
\* the checks
StartWorker(status) ==
    \E t \in 1..MaxThreads :
        /\ web.threads[t] = "none"
        /\ \A u \in 1..(t - 1) : web.threads[u] # "none"
        /\ stop_event' = FALSE
        /\ web' = [web EXCEPT !.threads[t] = "started", !._run_thread = t,
                              !.response = status]

\* POST /run, under _run_lock
trigger_run ==
    /\ IF web.running
       THEN /\ web' = [web EXCEPT !.response = "already_running"]
            /\ UNCHANGED stop_event
       ELSE StartWorker("started")
    /\ WebFrame

\* POST /continue, under _run_lock
continue_run ==
    /\ IF web.running
       THEN /\ web' = [web EXCEPT !.response = "already_running"]
            /\ UNCHANGED stop_event
       ELSE IF ~web.session
       THEN /\ web' = [web EXCEPT !.response = "no_session_to_continue"]
            /\ UNCHANGED stop_event
       ELSE StartWorker("continued")
    /\ WebFrame

\* POST /run/stop, under _run_lock: the stop event is set, and when the thread is
\* still alive after the wait a cleanup thread is started
StopRequest ==
    /\ IF ~web.running
       THEN /\ web' = [web EXCEPT !.response = "not_running"]
            /\ UNCHANGED stop_event
       ELSE /\ web.cleanups < MaxCleanups
            /\ stop_event' = TRUE
            /\ web' = [web EXCEPT !.stopping = TRUE, !.response = "stopping",
                                  !.cleanups = IF RunThreadAlive THEN @ + 1 ELSE @]
    /\ WebFrame

\* cleanup_stuck_thread after its sleep
cleanup_stuck_thread ==
    /\ web.cleanups > 0
    /\ web' = IF RunThreadAlive
              THEN [web EXCEPT !.cleanups = @ - 1, !.running = FALSE, !.stopping = FALSE]
              ELSE [web EXCEPT !.cleanups = @ - 1]
    /\ UNCHANGED stop_event
    /\ WebFrame

\* _worker up to the call of run_pipeline
WorkerStarts(t) ==
    /\ web.threads[t] = "started"
    /\ web' = [web EXCEPT !.threads[t] = "in_pipeline", !.running = TRUE,
                          !.stopping = FALSE]
    /\ UNCHANGED stop_event
    /\ WebFrame

\* run_pipeline calls the progress callback with the session id
ProgressCallback(t) ==
    /\ web.threads[t] = "in_pipeline"
    /\ ~web.session
    /\ web' = [web EXCEPT !.session = TRUE]
    /\ UNCHANGED stop_event
    /\ WebFrame

\* run_pipeline returns or raises: the finally block of _worker
WorkerEnds(t) ==
    /\ web.threads[t] = "in_pipeline"
    /\ web' = [web EXCEPT !.threads[t] = "done", !.running = FALSE, !.stopping = FALSE]
    /\ stop_event' = FALSE
    /\ WebFrame

WebNext ==
    \/ trigger_run
    \/ continue_run
    \/ StopRequest
    \/ cleanup_stuck_thread
    \/ \E t \in 1..MaxThreads : WorkerStarts(t)
    \/ \E t \in 1..MaxThreads : ProgressCallback(t)
    \/ \E t \in 1..MaxThreads : WorkerEnds(t)

InitWeb == LedgerInitOf({[urls |-> {}, hashes |-> {}]}) /\ PipelineInitOf({FALSE}, {0})

\* the server under concurrent requests
SpecWeb == InitWeb /\ [][WebNext]_vars

\* run_pipeline with the scorer enabled and the model of scoring.py
ScoringNext ==
    \/ \E cs \in Sessions \cup {NULL}, id \in Sessions : RunPipeline(cs, id)
    \/ NextTheme
    \/ \E n \in BatchSizes : WhileRound(n)
    \/ \E outcome \in ScorerOutcomes, load_ok \in BOOLEAN : ScoreCandidate(outcome, load_ok)
    \/ FinishRun
    \/ stop_run

InitScoring ==
    LedgerInitOf({[urls |-> {}, hashes |-> {}]}) /\ PipelineInitOf({TRUE}, {0})

SpecScoring == InitScoring /\ [][ScoringNext]_vars

(***************************************************************************)
(* search_expander_v2.py: batch_expand_search_terms_v2 for one theme       *)
(***************************************************************************)

ExpanderFrame ==
    /\ UNCHANGED <<session_dirs, bank, candidates_dir, results, retries, run, stop_event,
                   scoring_enabled, max_retries, last, runNo, nextCand, slicer, batch, ydl,
                   web, scorer>>
    /\ UNCHANGED ledgerVars

\* samples_per_theme of the calls
SamplesPerTheme == {samples_per_bank, samples_per_bank + 1}

\* search_terms_override[theme_name] as run_pipeline builds it: one word repeated
\* samples_per_bank times, or a word per sample; <<>> stands for no override
Overrides(n) ==
    {<<>>} \cup {[i \in 1..n |-> "w1"]}
           \cup {[i \in 1..n |-> IF i = 1 THEN "w1" ELSE "w2"]}

\* a search phrase: a raw term or word (kind "raw"), or the j-th phrase made from it
\* by the service ("expanded") or by the fallbacks of expand_single_term
Phrase(word, kind, j) == <<word, kind, j>>

\* what the service does for one word: the call raises, the content is not the
\* JSON looked for, or it holds a list of count phrases
ServiceOutcomes ==
    {[kind |-> "raises", count |-> 0], [kind |-> "unparsable", count |-> 0]}
    \cup {[kind |-> "list", count |-> c] : c \in {0, 1, 4, 5}}

\* expand_single_term(word, clap_prompt, api_key)
expand_single_term(word, outcome) ==
    IF outcome.kind = "list"
    THEN [j \in 1..(IF outcome.count < 4 THEN outcome.count ELSE 4) |->
              Phrase(word, "expanded", j)]
    ELSE [j \in 1..4 |-> Phrase(word, IF outcome.kind = "raises" THEN "except" ELSE "fallback", j)]

\* the call for a theme whose search is "q": without expansion or without a key the
\* result is returned at once; else the words to expand are collected
CallBatchExpand(use_expansion, n, override) ==
    /\ expander.pc = "idle"
    /\ LET words == IF override # <<>> THEN override ELSE [i \in 1..n |-> "q"]
       IN  expander' =
             IF ~use_expansion
             THEN [IdleExpander EXCEPT
                     !.pc = "returned", !.samples_per_theme = n, !.words = words,
                     !.result = [i \in 1..(IF Len(words) < n THEN Len(words) ELSE n) |->
                                    Phrase(words[i], "raw", 0)]]
             ELSE [IdleExpander EXCEPT
                     !.pc = "expanding", !.use_expansion = TRUE, !.samples_per_theme = n,
                     !.words = words,
                     !.unique_words =
                         {words[i] : i \in 1..(IF Len(words) < n THEN Len(words) ELSE n)}]
    /\ ExpanderFrame

\* one round of `for word in unique_words`
ExpandWord(word, outcome) ==
    /\ expander.pc = "expanding"
    /\ word \in expander.unique_words
    /\ expander' = [expander EXCEPT
                      !.unique_words = @ \ {word},
                      !.expanded_queries = @ \o expand_single_term(word, outcome),
                      !.pc = IF expander.unique_words = {word} THEN "ensure" ELSE "expanding"]
    /\ ExpanderFrame

\* one round of `while len(expanded_queries) < samples_per_theme:
\* expanded_queries.extend(expanded_queries)`, or the cut to samples_per_theme
EnsureEnough ==
    /\ expander.pc = "ensure"
    /\ IF Len(expander.expanded_queries) < expander.samples_per_theme
       THEN /\ expander.rounds < MaxSpins
            /\ expander' = [expander EXCEPT !.expanded_queries = @ \o @, !.rounds = @ + 1]
       ELSE expander' = [expander EXCEPT
                           !.pc = "returned",
                           !.result = SubSeq(expander.expanded_queries, 1,
                                             expander.samples_per_theme)]
    /\ ExpanderFrame

\* the caller takes the result
ExpandReturns ==
    /\ expander.pc = "returned"
    /\ expander' = IdleExpander
    /\ ExpanderFrame

ExpandNext ==
    \/ \E use_expansion \in BOOLEAN, n \in SamplesPerTheme :
          \E override \in Overrides(n) : CallBatchExpand(use_expansion, n, override)
    \/ \E word \in {"q", "w1", "w2"}, outcome \in ServiceOutcomes : ExpandWord(word, outcome)
    \/ EnsureEnough
    \/ ExpandReturns

InitExpand == LedgerInitOf({[urls |-> {}, hashes |-> {}]}) /\ PipelineInitOf({FALSE}, {0})

SpecExpand == InitExpand /\ [][ExpandNext]_vars

\* the pipeline on a new installation
InitPipeline == LedgerInitOf({[urls |-> {}, hashes |-> {}]}) /\ PipelineInit

SpecPipeline == InitPipeline /\ [][PipelineNext]_vars

\* run_pipeline with any of the themes.json files, retries without a cap, the
\* scorer on or off
TerminationNext ==
    \/ \E cs \in Sessions \cup {NULL}, id \in Sessions, search_map \in SearchMaps :
          RunPipelineWith(cs, id, search_map)
    \/ NextTheme
    \/ SplitLoopRound
    \/ \E n \in BatchSizes : WhileRound(n)
    \/ \E outcome \in ScorerOutcomes : AssignCandidate(outcome)
    \/ FinishRun
    \/ stop_run

InitTermination ==
    LedgerInitOf({[urls |-> {}, hashes |-> {}]}) /\ PipelineInitOf(BOOLEAN, {0})

SpecTermination == InitTermination /\ [][TerminationNext]_vars


(***************************************************************************)
(* Properties of the ledger and of the fetch path.                         *)
(***************************************************************************)
\* the workers whose _download_one is past the claim, working on a source with key k
Fetching(k) ==
    {w \in Workers : /\ wk[w].url # NoUrl
                     /\ KeyOf(wk[w].url) = k
                     /\ \/ wk[w].pc \in {"extract_info", "download"}
                        \/ wk[w].op \in {"update", "file_hash", "save_hash"}}

\* the workers inside add_url for a URL with key k
InAddUrl(k) ==
    {w \in Workers : /\ wk[w].pc \in {"add_begin", "add_select", "add_insert"}
                     /\ KeyOf(wk[w].url) = k}

InAddHash(h) ==
    {w \in Workers : wk[w].pc \in {"hash_begin", "hash_select", "hash_insert"} /\ wk[w].hash = h}

\* the keys of the URLs an earlier version left in its JSON file
LegacyKeys == {KeyOf(u) : u \in legacy_urls}

\* C1: no source is fetched twice: of the _download_one calls on URLs with one key,
\* in any interleaving and in any process, at most one gets True from add_url and
\* goes on to extract_info and download; no other call is past the claim
C1_NoSourceFetchedTwice ==
    \A k \in Keys : fetches[k] <= 1 /\ Cardinality(Fetching(k)) <= fetches[k]

\* two _download_one calls on two forms of one video raced past has_url; one has
\* claimed the video and is extracting, the other is at the SELECT of add_url
C1_Witness ==
    \E w1, w2 \in Workers :
        /\ ProcOf(w1) # ProcOf(w2)
        /\ wk[w1].pc = "extract_info"
        /\ wk[w2].op = "claim" /\ wk[w2].pc = "add_select"
        /\ wk[w1].url # wk[w2].url
        /\ KeyOf(wk[w1].url) = KeyOf(wk[w2].url)

\* C2 as claimed: once the concurrent add_url calls on a key that was not stored
\* before have all returned, exactly one of them has returned True
C2_ExactlyOneTrue ==
    \A k \in Keys :
        (/\ k \notin LegacyKeys
         /\ InAddUrl(k) = {}
         /\ urlRet[k].t > 0 \/ urlRet[k].f \/ urlRet[k].e)
        => urlRet[k].t = 1

\* C2 as amended: at most one add_url call per key returns True and every other
\* call returns False; exactly one returns True when no call on the key ended in
\* the sqlite3.Error branch (a busy write lock, a transaction left open)
C2_AtMostOneTrue ==
    \A k \in Keys :
        /\ urlRet[k].t <= 1
        /\ (/\ k \notin LegacyKeys
            /\ InAddUrl(k) = {}
            /\ urlRet[k].t > 0 \/ urlRet[k].f
            /\ ~urlRet[k].e)
           => urlRet[k].t = 1

\* direct add_url calls on one key: one returned True, another False on the found row
C2_Witness ==
    \E k \in Keys :
        /\ k \notin LegacyKeys
        /\ fetches[k] = 0
        /\ urlRet[k].t = 1 /\ urlRet[k].f /\ ~urlRet[k].e

\* C3 as claimed: once the concurrent add_hash calls on a hash that was not stored
\* before have all returned, exactly one of them has returned True
C3_ExactlyOneInsert ==
    \A h \in Hashes :
        (/\ h \notin legacy_hashes
         /\ InAddHash(h) = {}
         /\ hashRet[h].t > 0 \/ hashRet[h].f \/ hashRet[h].e)
        => hashRet[h].t = 1

\* C3 as amended: at most one add_hash call per hash returns True and every other
\* call returns False; exactly one returns True when no call on the hash ended in
\* the sqlite3.Error branch
C3_AtMostOneInsert ==
    \A h \in Hashes :
        /\ hashRet[h].t <= 1
        /\ (/\ h \notin legacy_hashes
            /\ InAddHash(h) = {}
            /\ hashRet[h].t > 0 \/ hashRet[h].f
            /\ ~hashRet[h].e)
           => hashRet[h].t = 1

\* direct add_hash calls on one hash, no _download_one involved: one returned True,
\* another False on the found row
C3_Witness ==
    \E h \in Hashes :
        /\ h \notin legacy_hashes
        /\ \A k \in Keys : fetches[k] = 0
        /\ hashRet[h].t = 1 /\ hashRet[h].f /\ ~hashRet[h].e

\* C4: after add_url has returned True for a URL, has_url is true for every URL
\* with the same key, the SELECT of add_url finds a row for it, and no later
\* add_url on such a URL has returned True
C4_ClaimedStaysUsed ==
    \A u \in URLS :
        urlRet[KeyOf(u)].t >= 1
        => /\ has_url(used_urls, u)
           /\ UrlRowExists(used_urls, u)
           /\ urlRet[KeyOf(u)].t = 1

\* a URL was claimed in one form, and an add_url on its key has since found the row
C4_Witness ==
    \E u \in URLS, r \in used_urls :
        /\ r.url # u
        /\ r.video_id # NULL
        /\ KeyOf(r.url) = KeyOf(u)
        /\ \A r2 \in used_urls : r2.url # u
        /\ urlRet[KeyOf(u)].t = 1 /\ urlRet[KeyOf(u)].f
        /\ has_url(used_urls, u)

\* C5 as claimed: no two used_urls rows share a normalized URL or a video id, and
\* no two audio_hashes rows share a hash
C5_UniqueRows ==
    /\ \A r1, r2 \in used_urls :
          r1 # r2 => /\ r1.normalized_url = NoUrl \/ r1.normalized_url # r2.normalized_url
                     /\ r1.video_id = NULL \/ r1.video_id # r2.video_id
    /\ \A r1, r2 \in audio_hashes : r1 # r2 => r1.hash # r2.hash

\* C11: every emitted slice, in the candidates directory or in a bank of any
\* session, has a content hash for which add_hash returned True before the slice
\* was kept; the hash is in exactly one row of audio_hashes; and no two emitted
\* slices, whatever process exported them, have the same content hash
C11_BankedHashesUnique ==
    \A h \in Hashes :
        slices[h] >= 1 =>
            /\ slices[h] = 1
            /\ hashRet[h].t >= 1
            /\ Cardinality({r \in audio_hashes : r.hash = h}) = 1

\* a slicer kept a slice with hash h, and a slicer that exported the same content
\* afterwards got False from add_hash and deleted its slice
C11_Witness ==
    \E h \in Hashes :
        /\ slices[h] = 1
        /\ hashRet[h].f
        /\ \A k \in Keys : fetches[k] = 0
        /\ \A w \in Workers : wk[w].pc = "idle"


\* worker w is inside add_url and the statement it is at raises sqlite3.Error: BEGIN
\* IMMEDIATE on a busy database or inside an open transaction, or the INSERT on a
\* row with the same url (IntegrityError)
UrlStatementRaises(w) ==
    \/ /\ wk[w].pc = "add_begin"
       /\ txnOpen[ProcOf(w)] \/ dbLock \notin {0, ProcOf(w)}
       /\ wk'[w] # wk[w]
       /\ wk'[w].pc # "add_select"
    \/ /\ wk[w].pc = "add_insert"
       /\ \E r \in used_urls : r.url = wk[w].url
       /\ wk'[w] # wk[w]

HashStatementRaises(w) ==
    \/ /\ wk[w].pc = "hash_begin"
       /\ txnOpen[ProcOf(w)] \/ dbLock \notin {0, ProcOf(w)}
       /\ wk'[w] # wk[w]
       /\ wk'[w].pc # "hash_select"
    \/ /\ wk[w].pc = "hash_insert"
       /\ \E r \in audio_hashes : r.hash = wk[w].hash
       /\ wk'[w] # wk[w]

\* C12: when a statement of add_url or add_hash raises sqlite3.Error, the call
\* returns False (no True is counted, _download_one does not go on to
\* extract_info, nothing is appended to the JSON files and no slice is kept), both
\* tables hold the rows they held before, and the connection is left with no open
\* transaction and without the write lock
C12_FailClosed ==
    [][\A w \in Workers :
          /\ UrlStatementRaises(w) =>
                /\ urlRet'[KeyOf(wk[w].url)].t = urlRet[KeyOf(wk[w].url)].t
                /\ urlRet'[KeyOf(wk[w].url)].e
                /\ wk'[w].pc # "extract_info"
                /\ used_urls' = used_urls /\ audio_hashes' = audio_hashes
                /\ used_urls_json' = used_urls_json
                /\ ~txnOpen'[ProcOf(w)] /\ dbLock' # ProcOf(w)
          /\ HashStatementRaises(w) =>
                /\ hashRet'[wk[w].hash].t = hashRet[wk[w].hash].t
                /\ hashRet'[wk[w].hash].e
                /\ slices' = slices
                /\ used_urls' = used_urls /\ audio_hashes' = audio_hashes
                /\ hashes_json' = hashes_json
                /\ ~txnOpen'[ProcOf(w)] /\ dbLock' # ProcOf(w)]_vars

\* an add_url call on a URL that no row stands for has returned False through the
\* except clause and nothing was stored for it
C12_Witness ==
    /\ \E k \in Keys :
          /\ urlRet[k].e /\ urlRet[k].t = 0 /\ ~urlRet[k].f
          /\ \A r \in used_urls : KeyOf(r.url) # k
          /\ InAddUrl(k) = {}
    /\ \A p \in Procs : ~txnOpen[p]

\* C13 as claimed: no _download_one call ends by raising an exception, whatever
\* goes wrong with its candidate
C13_NoExceptionEscapes ==
    \A w \in Workers : wk[w].pc # "raised"

\* C14: once add_url has returned True to _download_one for a source, has_url is
\* true for every form of the source from then on, whether the fetch found a live
\* stream or a too short source, failed at the metadata or at the download, or
\* ended on a content hash already stored; no process gets the source from
\* _extract_search again, with or without its session cache
C14_ClaimNeverReleased ==
    \A u \in URLS :
        fetches[KeyOf(u)] >= 1
        => /\ has_url(used_urls, u)
           /\ \A p \in Procs, vid \in IdPieces : ~ExtractSearchKeeps(p, vid, u)
           /\ \E r \in used_urls : r.theme_name # NULL /\ KeyOf(r.url) = KeyOf(u)

\* the fetch of a source claimed in process 2 is over and has stored no file hash
\* for it; the source is still used, also for process 1, whose session cache is empty
C14_Witness ==
    \E u \in URLS :
        /\ fetches[KeyOf(u)] = 1
        /\ Fetching(KeyOf(u)) = {}
        /\ \A w \in Workers : wk[w].pc = "idle"
        /\ \A r \in audio_hashes : r.url = NoUrl
        /\ has_url(used_urls, u)
        /\ session_urls[1] = {} /\ session_urls[2] # {}

\* C19 as claimed: add_url returns False for a URL only when a row that stands for
\* the same source is stored
C19_NoFalseDuplicate ==
    \A k \in Keys :
        (urlRet[k].f \/ urlRet[k].e) => \E r \in used_urls : KeyOf(r.url) = k

\* C19 as amended: the SELECT of add_url rejects a URL only when a row of the same
\* source is stored, whatever rows of other sources the other callers have
\* inserted; no source has rows of two claimants; every other False comes from
\* the sqlite3.Error branch
C19_FalseOnlyOnRowOrError ==
    \A k \in Keys :
        /\ urlRet[k].f => \E r \in used_urls : KeyOf(r.url) = k
        /\ Cardinality({r \in used_urls : r.theme_name # NULL /\ KeyOf(r.url) = k}) <= 1
        /\ urlRet[k].t >= 1 => \E r \in used_urls : r.theme_name # NULL /\ KeyOf(r.url) = k

\* workers of two processes have claimed two different sources; both calls
\* returned True and none ended in the except clause
C19_Witness ==
    \E r1, r2 \in used_urls :
        /\ KeyOf(r1.url) # KeyOf(r2.url)
        /\ r1.theme_name = "Soft" /\ r2.theme_name = "Loud"
        /\ urlRet[KeyOf(r1.url)] = [t |-> 1, f |-> FALSE, e |-> FALSE]
        /\ urlRet[KeyOf(r2.url)] = [t |-> 1, f |-> FALSE, e |-> FALSE]

FilesOf(c) ==
    UNION {{<<s, t, f.num>> : f \in {g \in bank[s][t] : g.cand = c}} :
              s \in Sessions, t \in ThemeNames}

\* the highest similarity of a slice over all themes
BestSim(sims) == Max({sims[t] : t \in ThemeNames})

\* an assignment step: the loop has handled one more candidate
Handled == last'.cand # last.cand

\* C6 as claimed: no bank directory holds more than samples_per_bank files and no
\* filled count exceeds samples_per_bank
C6_BankCapacity ==
    /\ \A s \in Sessions, t \in ThemeNames : Cardinality(bank[s][t]) <= samples_per_bank
    /\ \A t \in ThemeNames : results[t] <= samples_per_bank

\* C7: a handled candidate is in exactly one place: it is one file of the bank of
\* the theme _assign_with_scoring returned, or it is deleted; it has left the
\* candidates directory and is in no second bank; when the scorer gave
\* similarities, a moved slice is in the bank of a theme with the highest
\* similarity, the target theme first among equals, and a deleted slice scored
\* below min_sim
C7_OneDestination ==
    /\ \A c \in 1..MaxCands :
          Cardinality(FilesOf(c)) + (IF c \in candidates_dir THEN 1 ELSE 0) <= 1
    /\ last.cand # 0 =>
          /\ last.dest = _assign_with_scoring(ThemeOrder(last.target), last.outcome).theme
          /\ IF last.dest = NULL
             THEN /\ FilesOf(last.cand) = {}
                  /\ last.cand \notin candidates_dir
                  /\ BestSim(last.outcome.sims) < min_sim
             ELSE /\ Cardinality(FilesOf(last.cand)) = 1
                  /\ \A p \in FilesOf(last.cand) : p[2] = last.dest
                  /\ last.outcome.kind = "scores" /\ scoring_enabled =>
                        /\ last.outcome.sims[last.dest] = BestSim(last.outcome.sims)
                        /\ last.outcome.sims[last.target] = BestSim(last.outcome.sims)
                              => last.dest = last.target

\* a slice fetched for one theme scored highest for another and is in that bank
C7_Witness ==
    /\ last.cand # 0
    /\ last.outcome.kind = "scores"
    /\ last.dest # NULL
    /\ last.dest # last.target
    /\ \E p \in FilesOf(last.cand) : p[2] = last.dest
    /\ last.outcome.sims[last.target] < last.outcome.sims[last.dest]

\* C8: handling a candidate whose best similarity is below min_sim deletes it,
\* puts it in no bank, leaves every filled count unchanged, and adds one to the
\* retries of the target theme and of no other theme
C8_ThresholdDiscard ==
    [][(/\ Handled
        /\ scoring_enabled
        /\ last'.outcome.kind = "scores"
        /\ BestSim(last'.outcome.sims) < min_sim)
       => /\ last'.cand \notin candidates_dir'
          /\ bank' = bank
          /\ results' = results
          /\ retries' = [retries EXCEPT ![last'.target] = @ + 1]]_vars

\* a slice was discarded below the threshold and its target theme has a retry
C8_Witness ==
    /\ last.cand # 0
    /\ last.outcome.kind = "scores"
    /\ BestSim(last.outcome.sims) < min_sim
    /\ last.dest = NULL
    /\ retries[last.target] >= 1
    /\ FilesOf(last.cand) = {}

\* C9: moving a slice fetched for theme A into the bank of B # A adds one to
\* results[B] and one to retries[A] and changes no other counter; moving it into
\* the bank of A adds one to results[A] and changes nothing else
C9_CrossThemeAccounting ==
    [][(Handled /\ last'.dest # NULL)
       => /\ \E f \in bank'[run.session_id][last'.dest] : f.cand = last'.cand
          /\ results' = [results EXCEPT ![last'.dest] = @ + 1]
          /\ retries' = IF last'.dest # last'.target
                        THEN [retries EXCEPT ![last'.target] = @ + 1]
                        ELSE retries]_vars

\* a slice fetched for A was moved to B: B has a file more, A a retry more
C9_Witness ==
    /\ last.cand # 0
    /\ last.dest # NULL
    /\ last.dest # last.target
    /\ retries[last.target] >= 1
    /\ results[last.dest] >= 1
    /\ results[last.target] = 0

\* C10: a run that continues a session starts with results equal to the number
\* of files in each bank of the session; no step removes or replaces a file of a
\* bank, and no candidate slice is in a bank twice
C10_ResumeFidelity ==
    [][/\ (runNo' # runNo /\ run'.continued)
             => \A t \in ThemeNames :
                   results'[t] = Cardinality(bank[run'.session_id][t])
       /\ \A s \in Sessions, t \in ThemeNames : bank[s][t] \subseteq bank'[s][t]
       /\ \A s \in Sessions, t \in ThemeNames :
             \A f1, f2 \in bank'[s][t] : f1.num = f2.num => f1 = f2
       /\ \A c \in 1..MaxCands : Cardinality(FilesOf(c)') <= 1]_vars

\* a continued run has put a file into a bank beside a file of the earlier run
C10_Witness ==
    /\ run.continued
    /\ \E t \in ThemeNames :
          /\ results[t] = Cardinality(bank[run.session_id][t])
          /\ \E f1, f2 \in bank[run.session_id][t] : f1.run < f2.run

\* what run_pipeline has left to do before it returns once a stop is requested:
\* the themes not yet visited, then the depth of the loop it is in
StopMeasure(r) ==
    IF r.pc \in {"idle", "finish"} THEN 0
    ELSE 3 * (Len(theme_names) + 1 - r.idx)
         + (CASE r.pc = "theme_loop" -> 1 [] r.pc = "while_loop" -> 2 [] r.pc = "for_loop" -> 3)

C17_ScoringFallback ==
    [][(/\ Handled
        /\ ~scoring_enabled \/ last'.outcome.kind \in {"exception", "none"})
       => /\ last'.dest = last'.target
          /\ ~_assign_with_scoring(ThemeOrder(last'.target), last'.outcome).scored
          /\ \E f \in bank'[run.session_id][last'.target] : f.cand = last'.cand
          /\ results' = [results EXCEPT ![last'.target] = @ + 1]
          /\ retries' = retries
          /\ run'.pc \in {"for_loop", "while_loop"}]_vars

\* scoring is enabled, the scorer raised on a slice, and the slice is in the bank
\* of its target theme
C17_Witness ==
    /\ scoring_enabled
    /\ last.cand # 0
    /\ last.outcome.kind = "exception"
    /\ last.dest = last.target
    /\ \E p \in FilesOf(last.cand) : p[2] = last.target
    /\ retries[last.target] = 0

\* C18: while run_pipeline is in its loops, between two assignments, the filled
\* count of every theme is the number of files in the bank directory of that theme
\* in the session of the run; it is so at the start of a new and of a continued run
C18_ProgressIsOnDisk ==
    run.pc # "idle" =>
        \A t \in ThemeNames : results[t] = Cardinality(bank[run.session_id][t])

\* a continued run has moved a slice: the count of the theme covers the files of
\* the earlier run and the new one
C18_Witness ==
    /\ run.pc \in {"for_loop", "while_loop"}
    /\ run.continued
    /\ \E t \in ThemeNames :
          /\ results[t] = samples_per_bank
          /\ \E f1, f2 \in bank[run.session_id][t] : f1.run # f2.run

(***************************************************************************)
(* Properties of the session cache.                                        *)
(***************************************************************************)
\* C21: the start of a run that continues an existing session leaves the session
\* cache as it is, so every URL that is_url_used_in_session reported before is
\* still reported; the start of a new session (also of one asked to continue a
\* session that does not exist) empties both sets; no other step removes anything
\* from the cache
C21_CacheClearedOnlyOnNewSession ==
    [][/\ (runNo' # runNo /\ run'.continued)
             => /\ session_urls' = session_urls /\ session_ids' = session_ids
                /\ \A u \in UrlForms :
                      is_url_used_in_session(PipelineProc, u)
                      => is_url_used_in_session(PipelineProc, u)'
       /\ (runNo' # runNo /\ ~run'.continued)
             => session_urls'[PipelineProc] = {} /\ session_ids'[PipelineProc] = {}
       /\ runNo' = runNo
             => /\ session_urls[PipelineProc] \subseteq session_urls'[PipelineProc]
                /\ session_ids[PipelineProc] \subseteq session_ids'[PipelineProc]]_vars

\* a second run has just continued the session of the first, and the URLs the
\* first run marked are still in the cache
C21_Witness ==
    /\ runNo = 2
    /\ run.pc = "theme_loop"
    /\ run.continued
    /\ \E u \in URLS : is_url_used_in_session(PipelineProc, u)
    /\ session_ids[PipelineProc] # {}

(***************************************************************************)
(* Properties of the slicers.                                              *)
(***************************************************************************)
\* the sequential loop is about to export the window at slicer.start
AtWindow ==
    /\ slicer.pc = "slice_loop"
    /\ slicer.taken < slicer.slices_per_video
    /\ slicer.start + clip_ms <= slicer.sound.len

\* C22 as claimed: when the hash of the slice exported at the current position is
\* already in audio_hashes, the slice file is deleted and the loop goes on at the
\* next stride position with the slices it has, the source still to be walked
C22_CollisionAdvances ==
    [][(/\ AtWindow
        /\ has_hash(audio_hashes, SliceHash(slicer.sound, slicer.start))
        /\ slicer' # slicer)
       => /\ slicer'.files = slicer.files
          /\ slicer'.out = slicer.out
          /\ slicer'.pc = "slice_loop"
          /\ slicer'.start = NextStart(slicer.start, slicer.slice_stride_ms)
          /\ slicer'.path_exists]_vars

\* what the sequential loop has left to do: the rest of the source, then the return
SliceMeasure(s) ==
    CASE s.pc = "slice_loop" ->
             2 + (IF s.start <= s.sound.len THEN s.sound.len - s.start + 1 ELSE 0)
      [] s.pc = "returned" -> 1
      [] OTHER -> 0

\* C23: every round of the sequential loop moves forward in the source or ends the
\* call, so the call returns; it never has more than slices_per_video slices and
\* every slice is a window [start, start + clip_ms) inside the source; once
\* slices_per_video slices are taken or no window is left, the next step returns
\* with the slices it has; and whenever a slicer returns, with slices or without,
\* also for a source shorter than one clip, the source file is deleted
C23_SlicingTerminates ==
    [][/\ slicer.pc = "slice_loop" =>
             /\ SliceMeasure(slicer') < SliceMeasure(slicer)
             /\ Len(slicer'.out) <= slicer.slices_per_video
             /\ \A k \in 1..Len(slicer'.out) :
                   /\ 0 <= slicer'.out[k].start
                   /\ slicer'.out[k].start + clip_ms <= slicer.sound.len
             /\ ~AtWindow => slicer'.pc = "returned" /\ slicer'.out = slicer.out
       /\ slicer'.pc = "returned" => ~slicer'.path_exists
       /\ (slicer.pc = "idle" /\ slicer'.pc = "returned")
             => slicer'.sound.len < clip_ms /\ slicer'.out = <<>>]_vars

\* a sequential call has returned fewer slices than asked for because the source
\* had no window left, and the source file is gone
C23_Witness ==
    /\ slicer.pc = "returned"
    /\ slicer.fn = "sequential"
    /\ Len(slicer.out) >= 2
    /\ Len(slicer.out) < slicer.slices_per_video
    /\ slicer.start + clip_ms > slicer.sound.len
    /\ ~slicer.path_exists

\* the windows _process_to_best_candidate_slices has scored and not selected
Unselected ==
    {slicer.candidate_segments[k] : k \in 1..Len(slicer.candidate_segments)}
        \ {slicer.best_segments[k] : k \in 1..Len(slicer.best_segments)}

\* C24: _process_to_best_candidate_slices tests at most max_tests windows and so
\* scores at most as many; it selects at most slices_per_video of the scored
\* windows and keeps only selected ones; every kept window has a score greater
\* than or equal to the score of every scored window left out of the selection;
\* it goes through the sequential loop exactly when there is no scorer or no
\* window got a score, and then the slices are the ones of the sequential slicer
C24_BestWindowsKept ==
    slicer.fn = "best" =>
        /\ slicer.segment_idx <= max_tests
        /\ Len(slicer.candidate_segments) <= slicer.segment_idx
        /\ Len(slicer.best_segments) <= slicer.slices_per_video
        /\ Len(slicer.out) <= slicer.slices_per_video
        /\ (\/ slicer.pc = "finalize"
            \/ slicer.pc = "returned" /\ ~slicer.fallback /\ slicer.sound.len >= clip_ms) =>
              /\ run_clap /\ slicer.candidate_segments # <<>>
              /\ \A k \in 1..Len(slicer.out) :
                    /\ slicer.out[k].scored
                    /\ \E j \in 1..Len(slicer.best_segments) :
                          /\ slicer.best_segments[j].start_ms = slicer.out[k].start
                          /\ slicer.best_segments[j].score = slicer.out[k].score
                    /\ \A c \in Unselected : slicer.out[k].score >= c.score
              /\ \A j \in 1..Len(slicer.best_segments) :
                    \A c \in Unselected : slicer.best_segments[j].score >= c.score
        /\ slicer.fallback =>
              /\ ~run_clap \/ slicer.candidate_segments = <<>>
              /\ slicer.sound.len >= clip_ms
              /\ slicer.pc \in {"slice_loop", "returned"}
              /\ \A k \in 1..Len(slicer.out) :
                    /\ ~slicer.out[k].scored
                    /\ slicer.out[k].start = slicer.windows[k]
        /\ (slicer.pc = "slice_loop" \/ (slicer.pc = "returned" /\ slicer.sound.len >= clip_ms
                                         /\ (~run_clap \/ slicer.candidate_segments = <<>>)))
              => slicer.fallback

\* a call on a chunk with more windows than the limit has returned: max_tests
\* windows were scored, the three best are kept, and a scored window with a lower
\* score was left out
C24_Witness ==
    /\ slicer.fn = "best"
    /\ slicer.pc = "returned"
    /\ ~slicer.fallback
    /\ slicer.segment_idx = max_tests
    /\ slicer.start + clip_ms <= slicer.sound.len
    /\ Len(slicer.candidate_segments) = max_tests
    /\ Len(slicer.out) = 3
    /\ \E c \in Unselected : \A k \in 1..Len(slicer.out) : c.score < slicer.out[k].score

(***************************************************************************)
(* Properties of the candidates directory.                                  *)
(***************************************************************************)
\* C32 as claimed: when the while loop of a theme has ended (the bank is full, a
\* stop was seen or the retry cap is reached) and when run_pipeline is about to
\* return, no slice that download_candidates_for_term returned is left in the
\* candidates directory: each was moved into a bank or deleted
C32_NoCandidateLeft ==
    run.pc \in {"theme_loop", "finish"} => candidates_dir = {}

(***************************************************************************)
(* Properties of _move_to_theme.                                            *)
(***************************************************************************)
\* C31: a move into a bank keeps every file the bank had and adds exactly one; the
\* number of the new file is one more than the highest number in the bank (1 in an
\* empty bank) and the number of no file that was there; the files of a bank have
\* distinct numbers; and a move changes one bank only
C31_NeverOverwrites ==
    [][/\ \A s \in Sessions, t \in ThemeNames :
             bank'[s][t] # bank[s][t] =>
                /\ bank[s][t] \subseteq bank'[s][t]
                /\ Cardinality(bank'[s][t]) = Cardinality(bank[s][t]) + 1
                /\ \A f \in bank'[s][t] \ bank[s][t] :
                      /\ f.num = IF bank[s][t] = {} THEN 1
                                 ELSE Max({g.num : g \in bank[s][t]}) + 1
                      /\ \A g \in bank[s][t] : g.num # f.num
                /\ \A f1, f2 \in bank'[s][t] : f1.num = f2.num => f1 = f2
       /\ candidates_dir' # candidates_dir =>
             Cardinality({p \in Sessions \X ThemeNames :
                             bank'[p[1]][p[2]] # bank[p[1]][p[2]]}) = 1
      ]_vars

\* a bank that held the files 1 and 3 of an earlier run has got a slice as file 4
C31_Witness ==
    \E t \in ThemeNames :
        /\ {f.num : f \in {g \in bank["s1"][t] : g.cand = 0}} = {1, 3}
        /\ \E f \in bank["s1"][t] : f.cand # 0 /\ f.num = 4
        /\ Cardinality(bank["s1"][t]) = 3

(***************************************************************************)
(* Properties of the end of a theme's while loop.                           *)
(***************************************************************************)
\* a step of run_pipeline that ends the while loop of the theme
Leaves == run.pc = "while_loop" /\ run'.pc = "theme_loop"

\* the phrase the round of the while loop gives to download_candidates_for_term
CurrentSearch ==
    searches_for_theme(theme_names[run.idx])[
        (IF run.search_idx >= searches_len THEN 0 ELSE run.search_idx) + 1]

\* C29 as claimed: the while loop of a theme is left as exhausted (the search gave
\* no candidates, while the bank is short, no stop is requested and the retry cap
\* is not reached) only when every phrase of searches_for_theme has been given to
\* download_candidates_for_term for this theme
C29_ExhaustedAfterEveryPhrase ==
    [][Leaves /\ run'.fetched =>
          \A i \in 1..searches_len :
              searches_for_theme(theme_names[run.idx])[i] \in run.tried \cup {CurrentSearch}
      ]_vars

\* C30: with max_retries = 0 the while loop is left without a call of
\* download_candidates_for_term only when the bank is complete or a stop is
\* requested, whatever retries holds; with max_retries > 0 and
\* retries[theme] >= max_retries at the head of the loop (bank short, no stop),
\* the loop is left without a call of download_candidates_for_term, no slice is
\* fetched, the theme stays short of samples_per_bank, and run_pipeline goes on
\* with the next round of the theme loop
C30_RetryBudget ==
    [][run' # run /\ run.pc = "while_loop" =>
          LET target_theme == theme_names[run.idx]
          IN  /\ max_retries = 0 /\ Leaves /\ ~run'.fetched =>
                    results[target_theme] >= samples_per_bank \/ stop_cb
              /\ /\ max_retries > 0
                 /\ retries[target_theme] >= max_retries
                 /\ results[target_theme] < samples_per_bank
                 /\ ~stop_cb
                 => /\ run'.pc = "theme_loop"
                    /\ run'.idx = run.idx + 1
                    /\ ~run'.fetched
                    /\ nextCand' = nextCand
                    /\ candidates_dir' = candidates_dir
                    /\ results' = results
                    /\ results'[target_theme] < samples_per_bank
      ]_vars

\* the loop of the first theme was left at the retry cap, short of its target and
\* without a stop, and the while loop of the second theme is running
C30_Witness ==
    /\ max_retries > 0
    /\ run.pc = "while_loop"
    /\ run.idx = 2
    /\ retries[theme_names[1]] >= max_retries
    /\ results[theme_names[1]] < samples_per_bank
    /\ results[theme_names[2]] < samples_per_bank
    /\ ~stop_event

(***************************************************************************)
(* Properties of the content check of _download_one.                        *)
(***************************************************************************)
\* add_hash returns to the _download_one of worker w, which has fetched a file
FileHashReturns(w) == wk[w].op = "file_hash" /\ wk'[w].op # "file_hash"

\* the file worker w has fetched, in state st
FileOf(w, st) == [url |-> wk[w].url, hash |-> wk[w].hash, state |-> st]

\* the file is deleted and _download_one returns no path; no slice comes from it
DeletedNoPath(w) ==
    /\ FileOf(w, "deleted") \in raw_dir'
    /\ wk'[w] = IdleWorker
    /\ slices' = slices

\* the hash is in the ledger and _download_one goes on to _save_hash and to the
\* return of the path
RecordedAndKept(w) ==
    /\ has_hash(audio_hashes', wk[w].hash)
    /\ FileOf(w, "fetched") \in raw_dir'
    /\ wk'[w].op = "save_hash"

\* _save_hash is over and _download_one returns the path of the file
PathReturned(w) ==
    wk[w].op = "save_hash" /\ wk'[w].op # "save_hash"
    => /\ FileOf(w, "returned") \in raw_dir'
       /\ has_hash(audio_hashes', wk[w].hash)
       /\ wk'[w] = IdleWorker

\* C27 as claimed: when the hash of the fetched file is in the ledger, for whatever
\* URL, _download_one deletes the file and returns no path, and no slice is made;
\* otherwise the hash is recorded and the path is returned
C27_DuplicateDeletedElseReturned ==
    [][\A w \in Workers :
          /\ FileHashReturns(w) =>
                IF has_hash(audio_hashes, wk[w].hash)
                THEN DeletedNoPath(w)
                ELSE RecordedAndKept(w)
          /\ PathReturned(w)
      ]_vars

\* C27 amended: a hash that is not in the ledger is recorded and the path returned
\* unless add_hash cannot open its transaction (the database is locked by another
\* process, or the connection is inside a transaction): then add_hash returns False
\* as for a duplicate, the file is deleted, no path is returned and the ledger is
\* left as it was
C27_DuplicateOrUnwritableDeleted ==
    [][\A w \in Workers :
          /\ FileHashReturns(w) =>
                IF has_hash(audio_hashes, wk[w].hash)
                THEN DeletedNoPath(w)
                ELSE \/ RecordedAndKept(w)
                     \/ /\ wk[w].pc = "hash_begin"
                        /\ txnOpen[ProcOf(w)] \/ dbLock \notin {0, ProcOf(w)}
                        /\ DeletedNoPath(w)
                        /\ audio_hashes' = audio_hashes
          /\ PathReturned(w)
      ]_vars

\* one fetched file was returned with its path, and a file fetched from another URL
\* with the same content was deleted
C27_Witness ==
    \E f, g \in raw_dir :
        /\ f.state = "returned"
        /\ g.state = "deleted"
        /\ g.hash = f.hash
        /\ g.url # f.url
        /\ \E r \in audio_hashes : r.hash = g.hash /\ r.url = f.url

(***************************************************************************)
(* Properties of download_candidates_for_term and _extract_search.          *)
(***************************************************************************)
\* the step that submits a wave
Submits == batch.pc = "loop" /\ batch'.pc = "wave"

\* C25: download_candidates_for_term runs _download_one in waves of at most
\* `workers` calls; a wave is submitted only when every future submitted before
\* has completed and was taken by the loop, only while fewer than max_results
\* sources have counted as successes and items are left, and only for items no
\* earlier wave held; the successes never exceed max_results; and the list of
\* candidates is returned only with max_results successes or with every item
\* submitted
C25_SequentialWaves ==
    [][/\ Cardinality(batch'.wave) <= batch'.workers
       /\ batch'.successful_downloads <= batch'.max_results
       /\ Submits =>
             /\ \A i \in DOMAIN batch.futs :
                   batch.futs[i].result # "running" /\ batch.futs[i].processed
             /\ batch.successful_downloads < batch.max_results
             /\ batch'.wave # {}
             /\ batch'.wave \subseteq 1..Len(batch.items)
             /\ batch'.wave \cap DOMAIN batch.futs = {}
             /\ DOMAIN batch'.futs = DOMAIN batch.futs \cup batch'.wave
       /\ batch'.pc = "returned" =>
             \/ batch'.successful_downloads = batch'.max_results
             \/ batch'.item_index = Len(batch'.items)
      ]_vars

\* a second wave is running after a first wave of two futures that gave one success
C25_Witness ==
    /\ batch.pc = "wave"
    /\ batch.workers = 2
    /\ batch.wave = {3}
    /\ batch.successful_downloads = 1
    /\ batch.futs[3].result = "running"

\* C26 as claimed: when download_candidates_for_term is over, every file that a
\* _download_one of the call returned with its path has been taken by the loop and
\* given to the slicer
C26_NoFetchDropped ==
    batch.pc \in {"returned", "raised"}
    => \A i \in DOMAIN batch.futs :
          batch.futs[i].result = "path" => batch.futs[i].processed

\* C28: every item _extract_search returns is an entry of the search, and at the
\* call no row of used_urls had its URL, its normalized URL or its video id, and the
\* session cache held neither the URL, nor its normalized URL, nor the video id
\* normalize_url finds in it; the call changes neither used_urls nor the session
\* cache
C28_ExtractFilters ==
    [][batch.pc = "idle" /\ batch'.pc # "idle" =>
          /\ \A i \in 1..Len(batch'.items) :
                LET vid == batch'.items[i][1]
                    url == batch'.items[i][2]
                    n == normalize_url(url)
                IN  /\ \E j \in 1..Len(batch'.entries) : batch'.entries[j] = <<vid, url>>
                    /\ \A r \in used_urls :
                          /\ r.url # url
                          /\ r.normalized_url # n.normalized_url
                          /\ r.video_id # vid
                          /\ n.video_id # NULL => r.video_id # n.video_id
                    /\ url \notin session_urls[PipelineProc]
                    /\ n.normalized_url \notin session_urls[PipelineProc]
                    /\ n.video_id # NULL => n.video_id \notin session_ids[PipelineProc]
          /\ used_urls' = used_urls
          /\ session_urls' = session_urls
          /\ session_ids' = session_ids
      ]_vars

\* the second search gave three entries: one is kept, one has its video id in the
\* ledger under another URL, and one is in the session cache only
C28_Witness ==
    /\ batch.pc = "loop"
    /\ batch.item_index = 0
    /\ Len(batch.entries) = 3
    /\ Len(batch.items) = 1
    /\ \E j \in 1..3 :
          /\ ~has_url(used_urls, batch.entries[j][2])
          /\ has_video_id(used_urls, batch.entries[j][1])
    /\ \E j \in 1..3 :
          /\ ~has_url(used_urls, batch.entries[j][2])
          /\ is_url_used_in_session(PipelineProc, batch.entries[j][2])

(***************************************************************************)
(* Properties of the termination of run_pipeline                           *)
(***************************************************************************)

\* the entry of searches_for_theme the next fetch uses, counted from 0
SearchPosition(r) ==
    IF r.search_idx >= samples_per_bank THEN 0 ELSE r.search_idx

\* the depth of the loop the run is in: the slices of the batch not yet handled,
\* below them the fetch loop
LoopDepth(r) ==
    CASE r.pc = "theme_loop" -> MaxCands + 4
      [] r.pc = "split_loop" -> MaxCands + 3
      [] r.pc = "for_loop" -> Len(r.candidates) + 2
      [] r.pc = "while_loop" -> 1

\* what run_pipeline has left to do before it returns, in lexicographic order: the
\* themes not yet left, the sources not yet fetched, the searches of the theme
\* not yet tried since the last fetch that brought something, the loop depth
TerminationMeasure(r, fetched_so_far) ==
    IF r.pc = "idle" THEN 0
    ELSE IF r.pc = "finish" THEN 1
    ELSE 2 + LoopDepth(r)
           + (MaxCands + 5) * ((samples_per_bank - SearchPosition(r))
              + (samples_per_bank + 1) * ((MaxCands - fetched_so_far)
                 + (MaxCands + 1) * (Len(theme_names) + 1 - r.idx)))

\* C33: with finitely many sources, every step of run_pipeline brings it nearer
\* to its return, under a retry budget without a cap and whatever becomes of the
\* fetched slices: a fetch that brings slices uses up sources, one that brings none
\* moves to the next search of the theme until none is left, every handled slice
\* shortens the batch, and every theme that is left is not entered again
C33_EveryStepNearerToReturn ==
    [][(run.pc # "idle" /\ run' # run)
       => TerminationMeasure(run', nextCand') < TerminationMeasure(run, nextCand)]_vars

(***************************************************************************)
(* Properties of the strategy and the options of _download_one             *)
(***************************************************************************)

\* C34: the options handed to YoutubeDL never hold a range to retrieve (the
\* centered one, or the one from the start of clip length) together with aria2c as
\* the external downloader, whatever the download method, the availability of
\* aria2c and the duration of the source
C34_NoAria2cWithSections ==
    (ydl.pc = "ready" /\ ydl.opts.download_sections # <<>>)
        => ydl.opts.external_downloader # "aria2c"

\* C35: in smart mode the centered range is chosen exactly when the duration is
\* above the chunk size, and a chosen range, in smart and in segment mode, lies in
\* the source, is not empty, is no longer than the chunk size plus two seconds and
\* holds the middle of the source
C35_StrategyAndRange ==
    ydl.pc = "ready" =>
        LET D == 1000 * ydl.video_duration
            E == EffectiveMs(ydl.settings, ydl.clip_ms)
            start == 1000 * ydl.start_time
            end == ydl.end_time
        IN  /\ ydl.settings.DOWNLOAD_METHOD = "smart" => (ydl.use_segments <=> D > E)
            /\ ydl.use_segments =>
                  /\ 0 <= start /\ start < end /\ end <= D
                  /\ end - start <= E + 2000
                  /\ ydl.start_time <= ydl.video_duration \div 2
                  /\ 1000 * (ydl.video_duration \div 2) <= end

(***************************************************************************)
(* Properties of the worker threads of web.py                              *)
(***************************************************************************)

\* the worker threads that are executing run_pipeline
InPipeline == {t \in 1..MaxThreads : web.threads[t] = "in_pipeline"}

\* C36: at most one worker thread of a server process is executing run_pipeline
\* at any time: a /run or /continue request that comes while a run is active, one
\* just started by a concurrent request and one stuck after a stop request
\* included, starts nothing
C36_SingleWorker == Cardinality(InPipeline) <= 1

(***************************************************************************)
(* Properties of the scorer that cannot be loaded                          *)
(***************************************************************************)

\* C37: once a scoring call of a run has failed because the model could not be
\* loaded, no later slice of that run brings another load attempt or another
\* failure log
C37_LoadFailureHandledOnce ==
    [][(scorer.failed_run # 0 /\ scorer.failed_run = runNo /\ runNo' = runNo)
       => /\ scorer'.load_attempts = scorer.load_attempts
          /\ scorer'.failure_logs = scorer.failure_logs]_vars

(***************************************************************************)
(* Properties of a run that continues a session                            *)
(***************************************************************************)

\* the files in the bank of theme t of the session of the run
OnDisk(t) == Cardinality(bank[run.session_id][t])

\* C38: a run that continues a session starts with the filled counts read from
\* the bank directories and every retry counter at 0; it skips a theme exactly
\* when the bank of the theme holds the target count or more and fetches nothing
\* for such a theme; every other theme it reaches without a stop request enters
\* the fetch loop with its retry counter at 0, also one whose retries had reached
\* the cap in the run before
C38_ResumeFromFileCounts ==
    [][/\ (run.pc = "idle" /\ run'.pc # "idle" /\ run'.continued)
             => \A t \in ThemeNames :
                   /\ retries'[t] = 0
                   /\ results'[t] = Cardinality(bank[run'.session_id][t])
       /\ (run.continued /\ run.pc = "theme_loop" /\ run.idx <= Len(theme_names)
            /\ run' # run)
             => LET t == theme_names[run.idx]
                IN  /\ (run'.pc = "theme_loop" /\ run'.idx = run.idx + 1)
                          <=> OnDisk(t) >= samples_per_bank
                    /\ (OnDisk(t) < samples_per_bank /\ ~stop_event)
                          => (run'.pc = "while_loop" /\ retries'[t] = 0)
                    /\ nextCand' = nextCand
       /\ (run.continued /\ run.pc = "while_loop" /\ nextCand' # nextCand)
             => OnDisk(theme_names[run.idx]) < samples_per_bank]_vars

\* a continued run has skipped a full theme and is in the fetch loop of a theme
\* whose retries had reached the cap in the run before, its retry counter at 0
C38_Witness ==
    /\ run.continued
    /\ run.pc = "while_loop"
    /\ run.idx > 1
    /\ OnDisk(theme_names[1]) >= samples_per_bank
    /\ theme_names[run.idx] \in run.exhausted_before
    /\ retries[theme_names[run.idx]] = 0
    /\ max_retries > 0

(***************************************************************************)
(* Properties of batch_expand_search_terms_v2                              *)
(***************************************************************************)

\* C39: the expansion ends and returns exactly samples_per_theme phrases for the
\* theme, never an empty list: every round of the loop that fills the list up makes
\* it longer or ends the loop, and without the service the result is the raw term
\* or the supplied words
C39_ExpansionTotal ==
    [][/\ expander'.pc = "returned"
             => /\ Len(expander'.result) = expander'.samples_per_theme
                /\ expander'.result # <<>>
                /\ ~expander'.use_expansion
                      => \A i \in 1..Len(expander'.result) :
                            expander'.result[i] = Phrase(expander'.words[i], "raw", 0)
       /\ (expander.pc = "ensure" /\ expander' # expander)
             => \/ expander'.pc = "returned"
                \/ Len(expander'.expanded_queries) > Len(expander.expanded_queries)]_vars

(***************************************************************************)
(* Properties of normalize_url.                                            *)
(***************************************************************************)
\* C16 as claimed: normalize_url gives every form of video a the normalized URL
\* https://www.youtube.com/watch?v=a and the video id a, and applied to the
\* normalized URL of any URL it returns that normalized URL and the same video id
C16_CanonicalIdempotent ==
    \A u \in session_urls[PipelineProc] \cap UrlForms :
        /\ u \in FormsOfVideo_a =>
              normalize_url(u) = [normalized_url |-> Watch_a, video_id |-> "a"]
        /\ normalize_url(normalize_url(u).normalized_url).normalized_url
              = normalize_url(u).normalized_url
        /\ normalize_url(normalize_url(u).normalized_url).video_id
              = normalize_url(u).video_id

=============================================================================
